---- MODULE Spec2Model ----
(***************************************************************************)
(* The suspend / resume protocol of the Space Explorer chat UIs.           *)
(*                                                                         *)
(* Four file-backed variants of the same Streamlit script are modelled:    *)
(*   "main"     chatbot_ui/app.py                                          *)
(*   "simple"   chatbot_ui/few_tries/app_simple.py                         *)
(*   "deployed" chatbot_ui/few_tries/app_deployed.py                       *)
(*   "runner"   chatbot_ui/few_tries/app_with_runner.py                    *)
(* One behaviour runs one variant (chosen in Init).  A Streamlit script    *)
(* run is split into its steps: the callback check at the top, the resume  *)
(* site, the chat-input site, and the event loop of query_agent, one       *)
(* event per step.  The agent runtime is the environment: it chooses the   *)
(* events of a stream, where the stream ends and where it raises.          *)
(*                                                                         *)
(* Further specifications share the module: CredentialSpec, the            *)
(* credential lifecycle of space_agent/oauth_helper.py; SessionsSpec,      *)
(* several browser sessions of the script side by side; ExtractionSpec,    *)
(* the text extraction of the main app over events of every shape;         *)
(* StorageSpec, space_agent/storage_tool.py; LoadsSpec, two concurrent     *)
(* load_auth_config calls of the main app.  Each leaves the variables of   *)
(* the others at their idle values.                                        *)
(*                                                                         *)
(* Python dictionaries are records, "k in d" is "k" \in DOMAIN d.  None    *)
(* is NoneStr where a string is expected and NoneRec where a dictionary    *)
(* is expected (TLC does not compare a string with a record).              *)
(***************************************************************************)
EXTENDS Naturals, Sequences, FiniteSets, TLC

\* ------------------------------------------------------------------ bounds
MaxEvents == 2      \* events the runtime yields in one stream
MaxTurns == 3       \* calls of query_agent in one behaviour
MaxNavigations == 2 \* page loads (browser sessions) after the first
MaxSessions == 3    \* sessions the runtime creates for sessions side by side
MaxUiSessions == 2  \* browser sessions open side by side
MaxStream == 4      \* events one extraction stream yields
MaxClock == 2       \* seconds the clock advances while the storage tool runs
MaxSaves == 3       \* calls of save_conversation in one behaviour

\* ------------------------------------------------------------------- values
NoneStr == "None"
NoneRec == [none |-> TRUE]

Variants == {"main", "simple", "deployed", "runner"}
StoreDeletes == {"main", "simple"}
OAuthStates == {"s1", "s2"}
Codes == {"k1", "k2"}
Prompts == {"Are there launches today?"}

REQUEST_EUC_FUNCTION_CALL_NAME == "adk_request_credential"

\* f"http://127.0.0.1:8501/?code={code}&state={state}"
callback_url(code, state) ==
    "http://127.0.0.1:8501/?code=" \o code \o "&state=" \o state

\* The oauth2 object of an auth config as the runtime serialises it, in
\* snake_case or camelCase, with or without the auth URI and the state.
Oauth2Dict(casing, uri, st) ==
    LET base == IF casing = "snake" THEN [client_id |-> "cid"]
                                     ELSE [clientId |-> "cid"]
        uriKey == IF casing = "snake" THEN "auth_uri" ELSE "authUri"
        withUri == IF uri = NoneStr THEN base ELSE (uriKey :> uri) @@ base
    IN  IF st = NoneStr THEN withUri ELSE ("state" :> st) @@ withUri

\* AuthConfig(auth_scheme, raw_auth_credential, exchanged_auth_credential,
\* credential_key) as a dictionary.
AuthConfig(casing, uri, st) ==
    IF casing = "snake"
    THEN [auth_scheme |-> "oauth2_scheme",
          credential_key |-> "ck",
          raw_auth_credential |-> "raw",
          exchanged_auth_credential |->
              [auth_type |-> "oauth2", oauth2 |-> Oauth2Dict(casing, uri, st)]]
    ELSE [authScheme |-> "oauth2_scheme",
          credentialKey |-> "ck",
          rawAuthCredential |-> "raw",
          exchangedAuthCredential |->
              [authType |-> "oauth2", oauth2 |-> Oauth2Dict(casing, uri, st)]]

AuthUri == "https://idp.example/authorize"

\* The auth configs the runtime may request: complete ones in both casings
\* and for both states, and incomplete ones (no state, no auth URI).
Configs(casing) ==
    {AuthConfig(casing, AuthUri, "s1"), AuthConfig(casing, AuthUri, "s2"),
     AuthConfig(casing, AuthUri, NoneStr), AuthConfig(casing, NoneStr, "s1")}

\* The function call id the runtime attaches to a config: one per state.
CallIdOf(cfg) ==
    LET o == IF "exchanged_auth_credential" \in DOMAIN cfg
             THEN cfg.exchanged_auth_credential.oauth2
             ELSE cfg.exchangedAuthCredential.oauth2
    IN  IF "state" \in DOMAIN o /\ o.state = "s2" THEN "c2" ELSE "c1"

\* --------------------------------------------------------- dictionary access
\* d.get(k) for a string value and for a dictionary value.
GetStr(d, k) == IF k \in DOMAIN d THEN d[k] ELSE NoneStr
GetRec(d, k) == IF k \in DOMAIN d THEN d[k] ELSE NoneRec

\* Python truthiness of an optional string and of an optional dictionary
\* (NoneRec stands for None and for the empty default {} alike: no key is in
\* its domain and it is falsy).
TruthyStr(v) == v # NoneStr /\ v # ""
TruthyRec(v) == v # NoneRec

\* sep.join(parts)
RECURSIVE Join(_, _)
Join(parts, sep) ==
    IF Len(parts) = 0 THEN ""
    ELSE IF Len(parts) = 1 THEN parts[1]
    ELSE parts[1] \o sep \o Join(Tail(parts), sep)

\* ------------------------------------------------------------------- events
Texts == {"hello", "world"}

\* Managed-runtime stream (main, simple): dictionary events; the request is
\* actions.requested_auth_configs keyed by the function call id, the text is
\* content.parts[].text.
ActionsEvent(cfg) ==
    [actions |-> [requested_auth_configs |->
                      <<[key |-> CallIdOf(cfg), value |-> cfg]>>],
     invocation_id |-> "inv1"]

ActionsEvents ==
    {[content |-> [parts |-> <<[text |-> t]>>], invocation_id |-> "inv1"] :
        t \in Texts}
    \cup {[invocation_id |-> "inv1"]}
    \cup {ActionsEvent(cfg) : cfg \in Configs("snake")}
    \cup {ActionsEvent(AuthConfig("camel", AuthUri, "s1"))}
    \cup {[content |-> [parts |-> <<[text |-> "hello"]>>]]
              @@ ActionsEvent(AuthConfig("snake", AuthUri, "s1"))}

\* Dictionary events with top-level parts (deployed): the request is a
\* function_call part named adk_request_credential.
CredentialCall(cfg, key) ==
    [function_call |->
        [name |-> REQUEST_EUC_FUNCTION_CALL_NAME,
         id |-> CallIdOf(cfg),
         args |-> (key :> cfg)]]

PartsEvents ==
    {[parts |-> <<[text |-> t]>>] : t \in Texts}
    \cup {[parts |-> <<>>]}
    \cup {[parts |-> <<CredentialCall(cfg, "authConfig")>>] :
              cfg \in Configs("camel")}
    \cup {[parts |-> <<CredentialCall(AuthConfig("snake", AuthUri, "s1"),
                                      "auth_config")>>]}
    \cup {[parts |-> <<[text |-> "hello"],
                       CredentialCall(AuthConfig("camel", AuthUri, "s1"),
                                      "authConfig")>>]}

\* In-process runner events (runner): objects, every attribute present and
\* None when unset.
ObjPart(text, fc) == [text |-> text, function_call |-> fc]

ObjEvent(parts) == [content |-> [parts |-> parts], invocation_id |-> "inv1"]

ObjCall(cfg, key) == CredentialCall(cfg, key).function_call

ObjectEvents ==
    {ObjEvent(<<ObjPart(t, NoneRec)>>) : t \in Texts}
    \cup {ObjEvent(<<>>)}
    \cup {ObjEvent(<<ObjPart(NoneStr, ObjCall(cfg, "authConfig"))>>) :
              cfg \in Configs("camel")}
    \cup {ObjEvent(<<ObjPart(NoneStr, ObjCall(cfg, "auth_config"))>>) :
              cfg \in {AuthConfig("snake", AuthUri, "s1")}}
    \cup {ObjEvent(<<ObjPart(NoneStr,
                              [ObjCall(AuthConfig("camel", AuthUri, "s1"),
                                       "authConfig")
                                   EXCEPT !.id = NoneStr])>>)}
    \cup {ObjEvent(<<ObjPart(NoneStr, [name |-> "get_launches", id |-> "c9",
                                       args |-> [limit |-> "5"]])>>)}
    \cup {ObjEvent(<<ObjPart("hello", NoneRec),
                     ObjPart(NoneStr, ObjCall(AuthConfig("camel", AuthUri, "s1"),
                                              "authConfig"))>>)}

EventsOf(v) ==
    IF v \in {"main", "simple"} THEN ActionsEvents
    ELSE IF v = "deployed" THEN PartsEvents
    ELSE ObjectEvents

\* Messages of the exceptions raised in a turn.
NameErrorMsg == "name 'auth_scheme' is not defined"
KeyErrorMsg == "'exchanged_auth_credential'"
TypeErrorMsg == "sequence item 0: expected str instance, NoneType found"
ValueErrorMsg == "Cannot get function call id from function call"
AttributeErrorMsg == "'NoneType' object has no attribute 'parts'"
RuntimeErrors ==
    {"401 Unauthorized: missing oauth token", "503 unavailable",
     AttributeErrorMsg}
SaveErrors ==
    {"[Errno 13] Permission denied: '/tmp/streamlit_oauth/auth.json'",
     "[Errno 28] No space left on device"}

\* A heuristic that finds no message to speak of authorization.
MentionsAuthNever(msg) == FALSE

\* "auth" in error_msg.lower() or "oauth" in error_msg.lower(), over the
\* messages above.
MentionsAuth(msg) ==
    msg \in {NameErrorMsg, KeyErrorMsg,
             "401 Unauthorized: missing oauth token",
             "[Errno 13] Permission denied: '/tmp/streamlit_oauth/auth.json'"}

\* --------------------------------------------------- the credential store
\* The directory of auth_<state>.json files as a map from state to record.
EmptyStore == [s \in OAuthStates |-> NoneRec]

\* A save that keeps the record a state already has.
save_first_wins(st, state, data) ==
    IF st[state] # NoneRec THEN st ELSE [st EXCEPT ![state] = data]

\* save_auth_config: json.dump of the record into the state's file.
save_auth_config(st, state, data) == [st EXCEPT ![state] = data]

\* A load that returns whatever record the store holds, under any state.
load_any_record(st, state) ==
    IF \E s \in OAuthStates : st[s] # NoneRec
    THEN st[CHOOSE s \in OAuthStates : st[s] # NoneRec]
    ELSE NoneRec

\* load_auth_config: the value returned ...
load_auth_config(st, state) == st[state]

\* ... and the store it leaves: main and simple unlink the file after a
\* successful read, deployed and runner leave it.
StoreAfterLoad(v, st, state) ==
    IF v \in StoreDeletes /\ st[state] # NoneRec
    THEN [st EXCEPT ![state] = NoneRec]
    ELSE st

\* ------------------------------------------------- detection, per event
NoScan ==
    [matched |-> FALSE, has_uri |-> FALSE, auth_url |-> NoneStr,
     state |-> NoneStr, function_call_id |-> NoneStr, auth_config |-> NoneRec]

\* main, simple: the first entry of actions.requested_auth_configs, read
\* with snake_case keys only.  has_uri: "auth_uri" in oauth2.
ActionsScan(event) ==
    IF "actions" \notin DOMAIN event THEN NoScan
    ELSE IF "requested_auth_configs" \notin DOMAIN event.actions THEN NoScan
    ELSE IF Len(event.actions.requested_auth_configs) = 0 THEN NoScan
    ELSE LET first == event.actions.requested_auth_configs[1]
             auth_config == first.value
         IN  IF "exchanged_auth_credential" \notin DOMAIN auth_config
             THEN NoScan
             ELSE IF "oauth2" \notin
                         DOMAIN auth_config.exchanged_auth_credential
             THEN NoScan
             ELSE LET oauth2 == auth_config.exchanged_auth_credential.oauth2
                  IN  [matched |-> TRUE,
                       has_uri |-> "auth_uri" \in DOMAIN oauth2,
                       auth_url |-> GetStr(oauth2, "auth_uri"),
                       state |-> GetStr(oauth2, "state"),
                       function_call_id |-> first.key,
                       auth_config |-> auth_config]

\* a.get(k1) or a.get(k2), for strings and for dictionaries.
GetStrOr(d, k1, k2) ==
    IF TruthyStr(GetStr(d, k1)) THEN GetStr(d, k1) ELSE GetStr(d, k2)
GetRecOr(d, k1, k2) ==
    IF TruthyRec(GetRec(d, k1)) THEN GetRec(d, k1) ELSE GetRec(d, k2)

\* The positions of the parts that are an adk_request_credential call.
CredentialParts(parts) ==
    {i \in 1..Len(parts) :
        /\ "function_call" \in DOMAIN parts[i]
        /\ parts[i].function_call # NoneRec
        /\ parts[i].function_call.name = REQUEST_EUC_FUNCTION_CALL_NAME}

FirstCredentialCall(parts) ==
    LET S == CredentialParts(parts)
    IN  IF S = {} THEN NoneRec
        ELSE parts[CHOOSE i \in S : \A j \in S : i <= j].function_call

\* deployed: the first function_call part named adk_request_credential;
\* args.authConfig or args.auth_config, then exchangedAuthCredential in
\* camelCase only, then authUri or auth_uri, and state.
PartsScan(event) ==
    LET parts == IF "parts" \in DOMAIN event THEN event.parts ELSE <<>>
        fc == FirstCredentialCall(parts)
    IN  IF fc = NoneRec THEN NoScan
        ELSE LET auth_config == GetRecOr(fc.args, "authConfig", "auth_config")
                 exc == IF TruthyRec(auth_config)
                        THEN GetRec(auth_config, "exchangedAuthCredential")
                        ELSE NoneRec
                 oauth2 == GetRec(exc, "oauth2")
                 url == GetStrOr(oauth2, "authUri", "auth_uri")
             IN  [matched |-> TRUE,
                  has_uri |-> TruthyStr(url),
                  auth_url |-> url,
                  state |-> GetStr(oauth2, "state"),
                  function_call_id |-> fc.id,
                  auth_config |-> auth_config]

\* runner: get_auth_request_function_call over event.content.parts.
get_auth_request_function_call(event) ==
    FirstCredentialCall(event.content.parts)

\* runner: get_auth_config, for args that are a dictionary.
get_auth_config(function_call) ==
    GetRecOr(function_call.args, "authConfig", "auth_config")

\* runner: exchangedAuthCredential or exchanged_auth_credential, then
\* authUri or auth_uri, and state.
ObjectScan(event) ==
    LET fc == get_auth_request_function_call(event)
    IN  IF fc = NoneRec THEN NoScan
        ELSE LET auth_config == get_auth_config(fc)
                 exc == IF TruthyRec(auth_config)
                        THEN GetRecOr(auth_config, "exchangedAuthCredential",
                                      "exchanged_auth_credential")
                        ELSE NoneRec
                 oauth2 == GetRec(exc, "oauth2")
                 url == GetStrOr(oauth2, "authUri", "auth_uri")
             IN  [matched |-> TRUE,
                  has_uri |-> TruthyStr(url),
                  auth_url |-> url,
                  state |-> GetStr(oauth2, "state"),
                  function_call_id |-> fc.id,
                  auth_config |-> auth_config]

Scan(v, event) ==
    IF v \in {"main", "simple"} THEN ActionsScan(event)
    ELSE IF v = "deployed" THEN PartsScan(event)
    ELSE ObjectScan(event)

\* ----------------------------------------------- text extraction, per event
\* An extraction that keeps the event's own text only.
ActionsTextOwn(event) ==
    IF TruthyStr(GetStr(event, "text")) THEN <<event.text>> ELSE <<>>

\* main, simple: the text of the first part of content.parts that has one,
\* else the event's own text; appended when truthy.
ActionsText(event) ==
    LET t == IF "content" \in DOMAIN event
             THEN IF "parts" \in DOMAIN event.content
                  THEN LET parts == event.content.parts
                           S == {i \in 1..Len(parts) :
                                    "text" \in DOMAIN parts[i]}
                       IN  IF S = {} THEN NoneStr
                           ELSE parts[CHOOSE i \in S : \A j \in S : i <= j].text
                  ELSE NoneStr
             ELSE GetStr(event, "text")
    IN  IF TruthyStr(t) THEN <<t>> ELSE <<>>

\* deployed, runner: the text of every part that has the key (deployed) or
\* the attribute (runner: always, None when unset), in order.
RECURSIVE PartsText(_)
PartsText(parts) ==
    IF Len(parts) = 0 THEN <<>>
    ELSE (IF "text" \in DOMAIN parts[1] THEN <<parts[1].text>> ELSE <<>>)
         \o PartsText(Tail(parts))

ExtractText(v, event) ==
    IF v \in {"main", "simple"} THEN ActionsText(event)
    ELSE IF v = "deployed"
    THEN PartsText(IF "parts" \in DOMAIN event THEN event.parts ELSE <<>>)
    ELSE PartsText(event.content.parts)

\* ---------------------------------------------------------------- state
VARIABLES
    variant,              \* which script runs
    store,                \* the auth_<state>.json files
    user_id,              \* st.session_state.user_id
    agent_session_id,     \* st.session_state.agent_session_id / session_id
    pending_auth_config,  \* st.session_state.pending_auth_config
    oauth_ready,          \* st.session_state.oauth_ready
    paused_invocation_id, \* st.session_state.paused_invocation_id
    client,               \* agent_client / remote_app / runner is not None
    query_params,         \* st.query_params: NoneRec, or code, state or both
    prompt,               \* the chat input of this script run, or None
    button,               \* "Clear and Start Over" was clicked for this run
    pc,                   \* position of the script run
    site,                 \* the call site of the running query_agent
    resuming,             \* this turn took the branch that builds a resume
    response_parts,       \* query_agent's local
    oauth_detected,       \* oauth_detected / auth_request_detected
    auth_url,             \* query_agent's local
    event_count,          \* events retrieved from the stream in this turn
    classified,           \* the turn's first event with auth URI and state
    turn_saved,           \* the states this turn registered a record under
    arrived_text,         \* the text fragments of the events retrieved
    auth_like,            \* an event retrieved held an auth structure
    requested,            \* state of the first complete request retrieved
    stream,               \* "none", "open", "closed": the turn's generator
    call,                 \* arguments of the turn's stream call, or NoneRec
    failure,              \* message of the exception raised in the turn
    result,               \* the dictionary query_agent returned
    lastCallback,         \* code, state, stored_data of the last hit callback
    callback_outcome,     \* how this script run's callback check ended
    hits,                 \* per state: loads that returned its record
    written,              \* per state: the record last saved and not read back
    resumes,              \* per state: resume messages handed to the runtime
    turns,                \* calls of query_agent so far
    navigations,          \* page loads so far
    messages,             \* st.session_state.messages: its last assistant entry
    created,              \* sessions the runtime created so far
    tool_state,           \* the tool context's session state
    returned,             \* what get_user_credentials returned last
    library,              \* what refresh and exchange did in that call
    ui,                   \* per browser session: its st.session_state, its run
    files,                \* the auth_<state>.json files those sessions share
    made,                 \* sessions the runtime created for them
    streamed,             \* events query_agent's loop took, the last one
    collected,            \* the response_parts they left behind
    environ,              \* os.environ's STORAGE_BUCKET
    now,                  \* the clock, in whole seconds
    objects,              \* the bucket: object name -> content
    clients,              \* storage clients created so far
    uploads,              \* the save_conversation calls so far, in order
    disk,                 \* the auth_<state>.json files two loads race for
    loaders               \* per concurrent load_auth_config call: its progress

session_vars ==
    <<user_id, agent_session_id, pending_auth_config, oauth_ready,
      paused_invocation_id, client>>

turn_vars ==
    <<site, resuming, response_parts, oauth_detected, auth_url, event_count,
      classified, turn_saved, arrived_text, auth_like, requested, stream,
      call, failure,
      result, turns>>

history_vars == <<lastCallback, callback_outcome, hits, written, resumes>>

\* The variables of the chat script ...
script_vars ==
    <<variant, store, session_vars, query_params, prompt, button, pc,
      turn_vars, history_vars, navigations, messages, created>>

\* ... of the agent's credential helper, and of several browser sessions
\* side by side.
credential_vars == <<tool_state, returned, library>>
sessions_vars == <<ui, files, made>>

\* ... of one event stream's text extraction, of the agent's storage tool,
\* and of two load_auth_config calls running concurrently.
extraction_vars == <<streamed, collected>>
storage_vars == <<environ, now, objects, clients, uploads>>
loads_vars == <<disk, loaders>>
further_vars == <<extraction_vars, storage_vars, loads_vars>>

side_vars == <<credential_vars, sessions_vars, further_vars>>

vars == <<script_vars, side_vars>>

\* st.session_state.user_id: the fixed "user_123" (main, simple) or
\* f"user_{os.urandom(8).hex()}", fresh for every browser session.
InitialUserId(v, n) ==
    IF v \in {"main", "simple"} THEN "user_123"
    ELSE "user_" \o ToString(n)

\* The id of the n-th session the runtime creates.
SessionId(n) == "sess" \o ToString(n)

\* A page load starts a browser session: the "Initialize session state"
\* block runs on an empty st.session_state.
FreshSession(n) ==
    /\ user_id' = InitialUserId(variant, n)
    /\ agent_session_id' = NoneStr
    /\ pending_auth_config' = NoneRec
    /\ oauth_ready' = FALSE
    /\ paused_invocation_id' = NoneStr
    /\ client' = FALSE
    /\ messages' = NoneRec

\* The chat script before its first run.
ScriptInit ==
    /\ variant \in Variants
    /\ store = EmptyStore
    /\ user_id = InitialUserId(variant, 0)
    /\ agent_session_id = NoneStr
    /\ pending_auth_config = NoneRec
    /\ oauth_ready = FALSE
    /\ paused_invocation_id = NoneStr
    /\ client = FALSE
    /\ query_params = NoneRec
    /\ prompt = NoneStr
    /\ button = FALSE
    /\ pc = "top"
    /\ site = "none"
    /\ resuming = FALSE
    /\ response_parts = <<>>
    /\ oauth_detected = FALSE
    /\ auth_url = NoneStr
    /\ event_count = 0
    /\ classified = NoneRec
    /\ turn_saved = {}
    /\ arrived_text = <<>>
    /\ auth_like = FALSE
    /\ requested = NoneStr
    /\ stream = "none"
    /\ call = NoneRec
    /\ failure = NoneStr
    /\ result = NoneRec
    /\ lastCallback = NoneRec
    /\ callback_outcome = "none"
    /\ hits = [s \in OAuthStates |-> 0]
    /\ written = [s \in OAuthStates |-> NoneRec]
    /\ resumes = [s \in OAuthStates |-> 0]
    /\ turns = 0
    /\ navigations = 0
    /\ messages = NoneRec
    /\ created = 0

\* The credential helper not called, no browser sessions side by side.
CredentialIdle ==
    /\ tool_state = NoneRec
    /\ returned = NoneRec
    /\ library = NoneRec

SessionsIdle ==
    /\ ui = [u \in {} |-> NoneRec]
    /\ files = EmptyStore
    /\ made = 0

\* No event extracted, the storage tool not called, no load running.
ExtractionIdle ==
    /\ streamed = [count |-> 0, last |-> NoneRec]
    /\ collected = <<>>

StorageIdle ==
    /\ environ = NoneStr
    /\ now = 0
    /\ objects = [n \in {} |-> NoneStr]
    /\ clients = 0
    /\ uploads = <<>>

LoadsIdle ==
    /\ disk = EmptyStore
    /\ loaders = [p \in {} |-> NoneRec]

FurtherIdle == ExtractionIdle /\ StorageIdle /\ LoadsIdle

Init == ScriptInit /\ CredentialIdle /\ SessionsIdle /\ FurtherIdle

\* ------------------------------------------------------- what starts a run
\* The browser loads the app URL, plain or as the identity provider's
\* redirect (?code=..&state=..): a new browser session, then a script run.
Navigate(params) ==
    /\ pc = "idle"
    /\ navigations < MaxNavigations
    /\ navigations' = navigations + 1
    /\ FreshSession(navigations + 1)
    /\ query_params' = params
    /\ prompt' = NoneStr
    /\ button' = FALSE
    /\ pc' = "top"
    /\ lastCallback' = NoneRec
    /\ callback_outcome' = "none"
    /\ UNCHANGED <<variant, side_vars, store, turn_vars, hits, written,
                   resumes, created>>

\* "code" in query_params and "state" in query_params
IsCallback ==
    /\ query_params # NoneRec
    /\ "code" \in DOMAIN query_params
    /\ "state" \in DOMAIN query_params

\* st.chat_input is rendered when the last run reached it: in main and
\* simple, main() returns before it while the URL holds code and state.
ChatInputRendered ==
    variant \in {"main", "simple"} => ~IsCallback

\* The user sends a chat message.
Submit(p) ==
    /\ pc = "idle"
    /\ ChatInputRendered
    /\ turns < MaxTurns
    /\ prompt' = p
    /\ button' = FALSE
    /\ pc' = "top"
    /\ callback_outcome' = "none"
    /\ UNCHANGED <<variant, side_vars, store, session_vars, query_params,
                   turn_vars, 
                   lastCallback, hits, written, resumes, navigations, messages, created>>

\* Any other widget interaction reruns the script with no chat input; in
\* main and simple on the "session expired" page it may be the click on
\* "Clear and Start Over".
Rerun(click) ==
    /\ pc = "idle"
    /\ turns < MaxTurns
    /\ click => (variant \in {"main", "simple"} /\ IsCallback)
    /\ prompt' = NoneStr
    /\ button' = click
    /\ pc' = "top"
    /\ callback_outcome' = "none"
    /\ UNCHANGED <<variant, side_vars, store, session_vars, query_params,
                   turn_vars, 
                   lastCallback, hits, written, resumes, navigations, messages, created>>

\* ------------------------------------------------------ the callback check

\* A write that replaces the oauth2 object by the response URI alone.
SetResponseUriAlone(auth_config, url) ==
    IF /\ "exchanged_auth_credential" \in DOMAIN auth_config
       /\ "oauth2" \in DOMAIN auth_config.exchanged_auth_credential
    THEN [auth_config EXCEPT !.exchanged_auth_credential.oauth2 =
              [auth_response_uri |-> url]]
    ELSE auth_config

\* auth_config["exchanged_auth_credential"]["oauth2"]["auth_response_uri"] =
\* callback_url, when both keys are there (main, simple).
SetResponseUriSnake(auth_config, url) ==
    IF /\ "exchanged_auth_credential" \in DOMAIN auth_config
       /\ "oauth2" \in DOMAIN auth_config.exchanged_auth_credential
    THEN [auth_config EXCEPT !.exchanged_auth_credential.oauth2 =
              ("auth_response_uri" :> url) @@ @]
    ELSE auth_config

\* "Handle both camelCase and snake_case variations" (deployed, runner).
SetResponseUriBoth(auth_config, url) ==
    IF "exchangedAuthCredential" \in DOMAIN auth_config
    THEN IF "oauth2" \in DOMAIN auth_config.exchangedAuthCredential
         THEN [auth_config EXCEPT !.exchangedAuthCredential.oauth2 =
                   ("authResponseUri" :> url) @@ @]
         ELSE auth_config
    ELSE SetResponseUriSnake(auth_config, url)

\* The key under which a record holds the session id.
SessionKey(v) ==
    IF v \in {"main", "simple"} THEN "agent_session_id" ELSE "session_id"

\* A callback that arms the resume and keeps no config.
PendingForgotten(v, stored_data, url) == NoneRec

\* st.session_state.pending_auth_config as the callback sets it.
PendingFrom(v, stored_data, url) ==
    IF v = "main"
    THEN [function_call_id |-> stored_data.function_call_id,
          auth_config |-> SetResponseUriSnake(stored_data.auth_config, url),
          invocation_id |-> GetStr(stored_data, "invocation_id")]
    ELSE IF v = "simple"
    THEN [function_call_id |-> stored_data.function_call_id,
          auth_config |-> SetResponseUriSnake(stored_data.auth_config, url)]
    ELSE [function_call_id |-> stored_data.function_call_id,
          auth_config |-> SetResponseUriBoth(stored_data.auth_config, url)]

\* simple arms the resume only inside the snake_case test.
ArmsResume(v, stored_data) ==
    v = "simple" =>
        /\ "exchanged_auth_credential" \in DOMAIN stored_data.auth_config
        /\ "oauth2" \in
               DOMAIN stored_data.auth_config.exchanged_auth_credential

\* The URL holds code and state and the state's record is read back: the
\* session is restored from it, the response URI written, the resume armed,
\* the query parameters cleared and the script rerun.
CallbackHit ==
    /\ pc = "top"
    /\ IsCallback
    /\ LET code == query_params.code
           state == query_params.state
           stored_data == load_auth_config(store, state)
           armed == ArmsResume(variant, stored_data)
       IN  /\ stored_data # NoneRec
           /\ store' = StoreAfterLoad(variant, store, state)
           /\ hits' = [hits EXCEPT ![state] = @ + 1]
           /\ written' = [written EXCEPT ![state] = NoneRec]
           /\ lastCallback' =
                  [code |-> code, state |-> state, stored_data |-> stored_data]
           /\ callback_outcome' = "hit"
           /\ agent_session_id' = stored_data[SessionKey(variant)]
           /\ user_id' = stored_data.user_id
           /\ paused_invocation_id' =
                  IF variant = "runner"
                  THEN GetStr(stored_data, "invocation_id")
                  ELSE paused_invocation_id
           /\ pending_auth_config' =
                  IF armed
                  THEN PendingFrom(variant, stored_data,
                                   callback_url(code, state))
                  ELSE pending_auth_config
           /\ oauth_ready' = (armed \/ oauth_ready)
           /\ query_params' = IF armed THEN NoneRec ELSE query_params
           /\ pc' = IF armed THEN "top" ELSE "idle"
    /\ prompt' = NoneStr
    /\ button' = FALSE
    /\ UNCHANGED <<variant, side_vars, client, turn_vars, resumes,
                   navigations, messages, created>>

\* The URL holds code and state and no record is read back.  main, simple:
\* "Session expired" is shown and main() returns (the button click clears
\* the URL and reruns); deployed, runner: the script goes on.
CallbackMiss ==
    /\ pc = "top"
    /\ IsCallback
    /\ load_auth_config(store, query_params.state) = NoneRec
    /\ IF variant \in {"main", "simple"}
       THEN /\ query_params' = IF button THEN NoneRec ELSE query_params
            /\ pc' = IF button THEN "top" ELSE "idle"
            /\ prompt' = NoneStr
            /\ callback_outcome' = "expired"
       ELSE /\ pc' = "resume"
            /\ callback_outcome' = "ignored"
            /\ UNCHANGED <<query_params, prompt>>
    /\ button' = FALSE
    /\ UNCHANGED <<variant, side_vars, store, session_vars, turn_vars,
                   lastCallback, 
                   hits, written, resumes, navigations, messages, created>>

\* The record's file is there and reading it fails (open or json.load
\* raises).  main, simple: load_auth_config catches the exception and
\* returns None, the file stays, "Session expired" is shown; deployed,
\* runner: nothing catches it, the exception ends the script run.
CallbackReadFails ==
    /\ pc = "top"
    /\ IsCallback
    /\ store[query_params.state] # NoneRec
    /\ IF variant \in {"main", "simple"}
       THEN /\ query_params' = IF button THEN NoneRec ELSE query_params
            /\ pc' = IF button THEN "top" ELSE "idle"
            /\ callback_outcome' = "expired"
       ELSE /\ pc' = "idle"
            /\ callback_outcome' = "raised"
            /\ UNCHANGED query_params
    /\ prompt' = NoneStr
    /\ button' = FALSE
    /\ UNCHANGED <<variant, side_vars, store, session_vars, turn_vars,
                   lastCallback, 
                   hits, written, resumes, navigations, messages, created>>

\* A check that correlates on the state parameter alone: the state's
\* record is read (and, where loads delete, removed).
NoCallbackReadsState ==
    /\ pc = "top"
    /\ ~IsCallback
    /\ store' = IF query_params # NoneRec /\ "state" \in DOMAIN query_params
                THEN StoreAfterLoad(variant, store, query_params.state)
                ELSE store
    /\ client' = IF variant \in {"main", "simple"} THEN TRUE ELSE client
    /\ pc' = "resume"
    /\ callback_outcome' = "not_callback"
    /\ UNCHANGED <<variant, side_vars, user_id, agent_session_id,
                   pending_auth_config, oauth_ready, paused_invocation_id,
                   query_params, prompt, button, turn_vars, lastCallback,
                   hits, written, resumes, navigations, messages, created>>

\* The URL is not a callback; main and simple connect the client in the
\* sidebar (initialize_agent_client) before the chat interface.
NoCallback ==
    /\ pc = "top"
    /\ ~IsCallback
    /\ client' = IF variant \in {"main", "simple"} THEN TRUE ELSE client
    /\ pc' = "resume"
    /\ callback_outcome' = "not_callback"
    /\ UNCHANGED <<variant, side_vars, store, user_id, agent_session_id,
                   pending_auth_config, oauth_ready, paused_invocation_id,
                   query_params, prompt, button, turn_vars, lastCallback,
                   hits, written, resumes, navigations, messages, created>>

\* ------------------------------------------------------------ the results
\* The except clauses of query_agent.  main, simple: the inferred
\* authorization outcome when the message mentions auth, else an error
\* (the traceback text that follows the message is left out); deployed,
\* runner: an error.
ExceptResult(v, msg) ==
    IF v \in {"main", "simple"}
    THEN IF MentionsAuth(msg)
         THEN [type |-> "oauth",
               content |-> "Authentication required: " \o msg,
               auth_url |-> NoneStr,
               requires_auth |-> TRUE]
         ELSE [type |-> "error",
               content |-> "Error: " \o msg,
               requires_auth |-> FALSE]
    ELSE [type |-> "error", content |-> "Error: " \o msg]

AuthRequiredResult(url) ==
    [type |-> "auth_required",
     auth_url |-> url,
     content |-> "Authentication required. Please click the link to authorize."]

\* The result built with the joined text as it is, empty or not.
ActionsFinalUnguarded(parts, detected, url) ==
    IF detected
    THEN [type |-> "oauth",
          content |-> "Authentication required to access MCP tools.",
          auth_url |-> url,
          requires_auth |-> TRUE]
    ELSE [type |-> "text",
          content |-> Join(parts, "\n"),
          requires_auth |-> FALSE]

\* main, simple: what follows the event loop.
ActionsFinal(parts, detected, url) ==
    LET full_response == Join(parts, "\n")
    IN  IF detected
        THEN [type |-> "oauth",
              content |-> "Authentication required to access MCP tools.",
              auth_url |-> url,
              requires_auth |-> TRUE]
        ELSE [type |-> "text",
              content |-> IF full_response # "" THEN full_response
                          ELSE "No response from agent.",
              requires_auth |-> FALSE]

\* deployed, runner: what follows the event loop; failure is the TypeError
\* of "\n\n".join over a list holding None (runner's part.text of a part
\* without text).
PartsFinal(parts, detected) ==
    IF Len(parts) > 0
    THEN IF \E i \in 1..Len(parts) : parts[i] = NoneStr
         THEN [failure |-> TypeErrorMsg,
               result |-> [type |-> "error",
                           content |-> "Error: " \o TypeErrorMsg]]
         ELSE [failure |-> NoneStr,
               result |-> [type |-> "text", content |-> Join(parts, "\n\n")]]
    ELSE IF detected
    THEN [failure |-> NoneStr,
          result |-> [type |-> "error",
                      content |-> "Authentication was requested but couldn't extract the authorization URL."]]
    ELSE [failure |-> NoneStr,
          result |-> [type |-> "text",
                      content |-> "I received your message but couldn't generate a response."]]

\* ------------------------------------------------------------ the messages
\* A plain user message as the stream call takes it.
StrMessage(text) == [str |-> text]

\* The resume message cut down to the exchanged credential alone.
PassthroughResumeTrimmed(pending) ==
    [role |-> "user",
     parts |-> <<[function_response |->
                     [name |-> "adk_request_credential",
                      id |-> pending.function_call_id,
                      response |->
                          [k \in DOMAIN pending.auth_config \cap
                                     {"exchangedAuthCredential",
                                      "exchanged_auth_credential"} |->
                              pending.auth_config[k]]]]>>]

\* The full-passthrough resume message (simple, deployed, runner): the
\* function_response named adk_request_credential whose response is the
\* pending auth config itself.
PassthroughResume(pending) ==
    [role |-> "user",
     parts |-> <<[function_response |->
                     [name |-> "adk_request_credential",
                      id |-> pending.function_call_id,
                      response |-> pending.auth_config]]>>]

\* types.Part(**d) and types.Content(**d): objects with every attribute.
Part(d) ==
    [text |-> GetStr(d, "text"),
     function_call |-> GetRec(d, "function_call"),
     function_response |-> GetRec(d, "function_response")]

Content(d) ==
    [role |-> d.role, parts |-> [i \in DOMAIN d.parts |-> Part(d.parts[i])]]

\* main: building the minimal resume message.  The subscript chain
\* auth_config["exchanged_auth_credential"]["oauth2"]["auth_response_uri"]
\* raises KeyError when a key is missing; the dictionary literal then reads
\* the names auth_scheme and auth_type, which no scope of app.py defines:
\* NameError.  The value is the message of the exception raised.
MinimalResumeRaises(pending) ==
    LET auth_config == pending.auth_config
    IN  IF /\ "exchanged_auth_credential" \in DOMAIN auth_config
           /\ "oauth2" \in DOMAIN auth_config.exchanged_auth_credential
           /\ "auth_response_uri" \in
                  DOMAIN auth_config.exchanged_auth_credential.oauth2
        THEN NameErrorMsg
        ELSE KeyErrorMsg

\* ------------------------------------------------- query_agent: the entry
\* The locals query_agent initialises.
BeginTurn(at, armed) ==
    /\ site' = at
    /\ resuming' = armed
    /\ response_parts' = <<>>
    /\ oauth_detected' = FALSE
    /\ auth_url' = NoneStr
    /\ event_count' = 0
    /\ classified' = NoneRec
    /\ turn_saved' = {}
    /\ arrived_text' = <<>>
    /\ auth_like' = FALSE
    /\ requested' = NoneStr
    /\ turns' = turns + 1

\* async_stream_query / run_async is called: the turn has its generator.
OpenStream(msg, sid, inv) ==
    /\ call' = [user_id |-> user_id, session_id |-> sid, message |-> msg,
                invocation_id |-> inv]
    /\ stream' = "open"
    /\ failure' = NoneStr
    /\ result' = NoneRec
    /\ pc' = "streaming"

\* query_agent returns before any stream call.
EndEarly(msg, res) ==
    /\ call' = NoneRec
    /\ stream' = "none"
    /\ failure' = msg
    /\ result' = res
    /\ pc' = "returned"

\* The runtime's create-session: "ok", or the message it raises with.
CreateOutcomes(needed) ==
    IF needed THEN {"ok"} \cup RuntimeErrors ELSE {"ok"}

ResumeSent == [resumes EXCEPT ![lastCallback.state] = @ + 1]

\* main: session on first use, then the resume message when armed (its
\* construction raises, so the except clause answers and the armed state
\* stays), else the user's text.
QueryMain(user_message, at) ==
    LET armed == oauth_ready /\ TruthyRec(pending_auth_config)
        needed == agent_session_id = NoneStr
    IN  /\ BeginTurn(at, armed)
        /\ \E rt \in CreateOutcomes(needed) :
              IF rt # "ok"
              THEN /\ EndEarly(rt, ExceptResult("main", rt))
                   /\ UNCHANGED <<agent_session_id, created>>
              ELSE /\ agent_session_id' =
                          IF needed THEN SessionId(created + 1)
                          ELSE agent_session_id
                   /\ created' = IF needed THEN created + 1 ELSE created
                   /\ IF armed
                      THEN LET msg == MinimalResumeRaises(pending_auth_config)
                           IN  EndEarly(msg, ExceptResult("main", msg))
                      ELSE OpenStream(StrMessage(user_message),
                                      agent_session_id', NoneStr)
        /\ UNCHANGED <<user_id, pending_auth_config, oauth_ready,
                       paused_invocation_id, client, resumes>>

\* simple: session on first use, then the passthrough resume message when
\* armed (disarming before the stream call), else the user's text.
QuerySimple(user_message, at) ==
    LET armed == oauth_ready /\ TruthyRec(pending_auth_config)
        needed == agent_session_id = NoneStr
    IN  /\ BeginTurn(at, armed)
        /\ \E rt \in CreateOutcomes(needed) :
              IF rt # "ok"
              THEN /\ EndEarly(rt, ExceptResult("simple", rt))
                   /\ UNCHANGED <<agent_session_id, created, oauth_ready,
                                  pending_auth_config, resumes>>
              ELSE /\ agent_session_id' =
                          IF needed THEN SessionId(created + 1)
                          ELSE agent_session_id
                   /\ created' = IF needed THEN created + 1 ELSE created
                   /\ oauth_ready' = IF armed THEN FALSE ELSE oauth_ready
                   /\ pending_auth_config' =
                          IF armed THEN NoneRec ELSE pending_auth_config
                   /\ resumes' = IF armed THEN ResumeSent ELSE resumes
                   /\ OpenStream(IF armed
                                 THEN PassthroughResume(pending_auth_config)
                                 ELSE StrMessage(user_message),
                                 agent_session_id', NoneStr)
        /\ UNCHANGED <<user_id, paused_invocation_id, client>>

\* deployed: initialize_remote_app connects and creates a session while
\* remote_app is None (a failure there is answered "Failed to connect");
\* then the passthrough resume message when is_auth_response and a pending
\* config is held, else message_content.
QueryDeployed(message_content, is_auth_response, at) ==
    LET armed == is_auth_response /\ TruthyRec(pending_auth_config)
        needed == ~client
    IN  /\ BeginTurn(at, armed)
        /\ client' = TRUE
        /\ \E rt \in CreateOutcomes(needed) :
              IF rt # "ok"
              THEN /\ EndEarly(rt, [type |-> "error",
                                    content |-> "Failed to connect to Agent Engine"])
                   /\ UNCHANGED <<agent_session_id, created, resumes>>
              ELSE /\ agent_session_id' =
                          IF needed THEN SessionId(created + 1)
                          ELSE agent_session_id
                   /\ created' = IF needed THEN created + 1 ELSE created
                   /\ resumes' = IF armed THEN ResumeSent ELSE resumes
                   /\ OpenStream(IF armed
                                 THEN PassthroughResume(pending_auth_config)
                                 ELSE StrMessage(message_content),
                                 agent_session_id', NoneStr)
        /\ UNCHANGED <<user_id, pending_auth_config, oauth_ready,
                       paused_invocation_id>>

\* runner: initialize_runner creates the in-memory session and the runner
\* while runner is None; the message becomes a types.Content; the stream
\* call carries the paused invocation id when is_auth_response and one is
\* held (cleared after use).
QueryRunner(message_content, is_auth_response, at) ==
    LET needed == ~client
        withInvocation ==
            is_auth_response /\ TruthyStr(paused_invocation_id)
        new_message ==
            IF is_auth_response THEN Content(message_content)
            ELSE Content([role |-> "user",
                          parts |-> <<[text |-> message_content]>>])
    IN  /\ BeginTurn(at, is_auth_response)
        /\ client' = TRUE
        /\ agent_session_id' =
               IF needed THEN SessionId(created + 1) ELSE agent_session_id
        /\ created' = IF needed THEN created + 1 ELSE created
        /\ resumes' = IF is_auth_response THEN ResumeSent ELSE resumes
        /\ paused_invocation_id' =
               IF withInvocation THEN NoneStr ELSE paused_invocation_id
        /\ OpenStream(new_message, agent_session_id',
                      IF withInvocation THEN paused_invocation_id
                      ELSE NoneStr)
        /\ UNCHANGED <<user_id, pending_auth_config, oauth_ready>>

\* ---------------------------------------------------------- the call sites
site_frame ==
    <<variant, side_vars, store, query_params, prompt, button, lastCallback,
      callback_outcome, hits, written, navigations, messages>>

\* "if st.session_state.get('oauth_ready')" with a pending config: the
\* script resumes by itself (main, deployed, runner).
ResumeTurnMain ==
    /\ pc = "resume" /\ variant = "main" /\ turns < MaxTurns
    /\ oauth_ready /\ TruthyRec(pending_auth_config)
    /\ QueryMain("Continue conversation.", "resume")
    /\ UNCHANGED site_frame

ResumeTurnDeployed ==
    /\ pc = "resume" /\ variant = "deployed" /\ turns < MaxTurns
    /\ oauth_ready /\ TruthyRec(pending_auth_config)
    /\ QueryDeployed(NoneStr, TRUE, "resume")
    /\ UNCHANGED site_frame

ResumeTurnRunner ==
    /\ pc = "resume" /\ variant = "runner" /\ turns < MaxTurns
    /\ oauth_ready /\ TruthyRec(pending_auth_config)
    /\ QueryRunner(PassthroughResume(pending_auth_config), TRUE, "resume")
    /\ UNCHANGED site_frame

\* No resume at this site: simple only shows "Send any message to retry";
\* the others skip when oauth_ready is unset (deployed and runner clear the
\* OAuth state when it is set without a pending config).
ResumeSkip ==
    /\ pc = "resume"
    /\ ~(variant # "simple" /\ oauth_ready /\ TruthyRec(pending_auth_config))
    /\ IF variant \in {"deployed", "runner"} /\ oauth_ready
       THEN oauth_ready' = FALSE /\ pending_auth_config' = NoneRec
       ELSE UNCHANGED <<oauth_ready, pending_auth_config>>
    /\ pc' = "chat"
    /\ UNCHANGED <<variant, side_vars, store, user_id, agent_session_id,
                   paused_invocation_id, client, query_params, prompt, button,
                   turn_vars, history_vars, navigations, messages, created>>

\* "if prompt := st.chat_input(...)": the user's turn.
ChatTurnMain ==
    /\ pc = "chat" /\ variant = "main" /\ turns < MaxTurns
    /\ prompt # NoneStr
    /\ QueryMain(prompt, "chat")
    /\ UNCHANGED site_frame

ChatTurnSimple ==
    /\ pc = "chat" /\ variant = "simple" /\ turns < MaxTurns
    /\ prompt # NoneStr
    /\ QuerySimple(prompt, "chat")
    /\ UNCHANGED site_frame

ChatTurnDeployed ==
    /\ pc = "chat" /\ variant = "deployed" /\ turns < MaxTurns
    /\ prompt # NoneStr
    /\ QueryDeployed(prompt, FALSE, "chat")
    /\ UNCHANGED site_frame

ChatTurnRunner ==
    /\ pc = "chat" /\ variant = "runner" /\ turns < MaxTurns
    /\ prompt # NoneStr
    /\ QueryRunner(prompt, FALSE, "chat")
    /\ UNCHANGED site_frame

\* No chat input in this run: the script run ends.
ChatSkip ==
    /\ pc = "chat"
    /\ prompt = NoneStr
    /\ pc' = "idle"
    /\ UNCHANGED <<variant, side_vars, store, session_vars, query_params,
                   prompt, button, 
                   turn_vars, history_vars, navigations, messages, created>>

\* --------------------------------------------------------- the event loop
\* The record a turn registers under the state of the request.
StorageData(v, scan, event) ==
    IF v = "main"
    THEN [function_call_id |-> scan.function_call_id,
          auth_config |-> scan.auth_config,
          agent_session_id |-> agent_session_id,
          user_id |-> user_id,
          invocation_id |-> GetStr(event, "invocation_id")]
    ELSE IF v = "simple"
    THEN [function_call_id |-> scan.function_call_id,
          auth_config |-> scan.auth_config,
          agent_session_id |-> agent_session_id,
          user_id |-> user_id]
    ELSE IF v = "deployed"
    THEN [function_call_id |-> scan.function_call_id,
          auth_config |-> scan.auth_config,
          session_id |-> agent_session_id,
          user_id |-> user_id]
    ELSE [function_call_id |-> scan.function_call_id,
          auth_config |-> scan.auth_config,
          session_id |-> agent_session_id,
          user_id |-> user_id,
          invocation_id |-> event.invocation_id]

\* save_auth_config succeeded: the record is in the store, the counts of
\* what happened to the state's previous record start again.
Registered(state, data) ==
    /\ store' = save_auth_config(store, state, data)
    /\ turn_saved' = turn_saved \cup {state}
    /\ hits' = [hits EXCEPT ![state] = 0]
    /\ written' = [written EXCEPT ![state] = data]
    /\ resumes' = [resumes EXCEPT ![state] = 0]

\* main, simple register on the state alone; deployed, runner on a config
\* with both the auth URI and the state.
Registers(v, scan) ==
    IF v \in {"main", "simple"}
    THEN scan.matched /\ TruthyStr(scan.state)
    ELSE /\ scan.matched
         /\ TruthyRec(scan.auth_config)
         /\ TruthyStr(scan.auth_url)
         /\ TruthyStr(scan.state)

\* An event is an authorization request when the scan finds both the auth
\* URI and the state ("if auth_url and state").
IsAuthRequest(scan) ==
    scan.matched /\ scan.has_uri /\ TruthyStr(scan.state)

\* The parts of an event, wherever its shape keeps them.
PartsOf(event) ==
    IF "parts" \in DOMAIN event THEN event.parts
    ELSE IF "content" \in DOMAIN event THEN event.content.parts
    ELSE <<>>

\* The text fragments an event carries, in order.
RECURSIVE TextsIn(_)
TextsIn(parts) ==
    IF Len(parts) = 0 THEN <<>>
    ELSE (IF TruthyStr(GetStr(parts[1], "text")) THEN <<parts[1].text>>
          ELSE <<>>) \o TextsIn(Tail(parts))

\* The event holds an auth structure: an entry of
\* actions.requested_auth_configs or an adk_request_credential call.
LooksLikeAuth(event) ==
    \/ /\ "actions" \in DOMAIN event
       /\ "requested_auth_configs" \in DOMAIN event.actions
       /\ Len(event.actions.requested_auth_configs) > 0
    \/ CredentialParts(PartsOf(event)) # {}

\* The state of the authorization request an event holds, in either shape
\* (an entry of actions.requested_auth_configs, an adk_request_credential
\* call) and either casing, when it carries both the auth URI and the
\* state; None otherwise.
RequestedState(event) ==
    LET fc == FirstCredentialCall(PartsOf(event))
        cfg == IF /\ "actions" \in DOMAIN event
                  /\ "requested_auth_configs" \in DOMAIN event.actions
                  /\ Len(event.actions.requested_auth_configs) > 0
               THEN event.actions.requested_auth_configs[1].value
               ELSE IF fc # NoneRec
               THEN GetRecOr(fc.args, "authConfig", "auth_config")
               ELSE NoneRec
        exc == GetRecOr(cfg, "exchangedAuthCredential",
                        "exchanged_auth_credential")
        oauth2 == GetRec(exc, "oauth2")
        url == GetStrOr(oauth2, "authUri", "auth_uri")
        state == GetStr(oauth2, "state")
    IN  IF TruthyStr(url) /\ TruthyStr(state) THEN state ELSE NoneStr

\* The first authorization request of the turn, its place in the stream
\* and the text that came with it.
Classify(scan, event) ==
    IF classified = NoneRec /\ IsAuthRequest(scan)
    THEN [at |-> event_count + 1, state |-> scan.state,
          texts |-> TextsIn(PartsOf(event))]
    ELSE classified

\* What the turn has seen arrive, whatever the loop does with it.
Arrived(event) ==
    /\ arrived_text' = arrived_text \o TextsIn(PartsOf(event))
    /\ auth_like' = (auth_like \/ LooksLikeAuth(event))
    /\ requested' = IF requested = NoneStr THEN RequestedState(event)
                      ELSE requested

SaveOutcomes(saves) == IF saves THEN {"ok"} \cup SaveErrors ELSE {"ok"}

loop_frame ==
    <<variant, side_vars, user_id, agent_session_id, pending_auth_config, oauth_ready,
      client, query_params, prompt, button, site, resuming, call, turns,
      lastCallback, callback_outcome, navigations, messages, created>>

\* main, simple: one event.  The auth scan marks the turn as detected on
\* the auth URI and registers on the state, each on its own; the text is
\* extracted from the same event; the loop goes on to the next event.  A
\* failed save leaves the loop by the except clause, the generator still
\* open.
EventActions(e) ==
    /\ pc = "streaming" /\ variant \in {"main", "simple"}
    /\ event_count < MaxEvents
    /\ event_count' = event_count + 1
    /\ LET scan == ActionsScan(e)
           saves == Registers(variant, scan)
           found == scan.matched /\ scan.has_uri
       IN  /\ classified' = Classify(scan, e)
           /\ Arrived(e)
           /\ oauth_detected' = (oauth_detected \/ found)
           /\ auth_url' = IF found THEN scan.auth_url ELSE auth_url
           /\ \E outcome \in SaveOutcomes(saves) :
                 IF outcome = "ok"
                 THEN /\ IF saves
                         THEN Registered(scan.state,
                                         StorageData(variant, scan, e))
                         ELSE UNCHANGED <<store, turn_saved, hits, written,
                                          resumes>>
                      /\ response_parts' = response_parts \o ActionsText(e)
                      /\ UNCHANGED <<pc, failure, result>>
                 ELSE /\ failure' = outcome
                      /\ result' = ExceptResult(variant, outcome)
                      /\ pc' = "returned"
                      /\ UNCHANGED <<store, turn_saved, hits, written,
                                     resumes, response_parts>>
    /\ UNCHANGED <<loop_frame, paused_invocation_id, stream>>

\* deployed: one event.  A complete request is registered and the function
\* returns from inside the loop (nothing closes the generator); otherwise
\* the text of every part is appended and the loop goes on.
EventParts(e) ==
    /\ pc = "streaming" /\ variant = "deployed"
    /\ event_count < MaxEvents
    /\ event_count' = event_count + 1
    /\ LET scan == PartsScan(e)
           saves == Registers(variant, scan)
       IN  /\ classified' = Classify(scan, e)
           /\ Arrived(e)
           /\ oauth_detected' = (oauth_detected \/ scan.matched)
           /\ auth_url' = IF scan.matched /\ TruthyRec(scan.auth_config)
                          THEN scan.auth_url ELSE auth_url
           /\ \E outcome \in SaveOutcomes(saves) :
                 IF ~saves
                 THEN /\ response_parts' =
                             response_parts \o ExtractText(variant, e)
                      /\ UNCHANGED <<store, turn_saved, hits, written,
                                     resumes, pc, failure, 
                                     result>>
                 ELSE IF outcome = "ok"
                 THEN /\ Registered(scan.state, StorageData(variant, scan, e))
                      /\ result' = AuthRequiredResult(scan.auth_url)
                      /\ pc' = "returned"
                      /\ UNCHANGED <<response_parts, failure>>
                 ELSE /\ failure' = outcome
                      /\ result' = ExceptResult(variant, outcome)
                      /\ pc' = "returned"
                      /\ UNCHANGED <<store, turn_saved, hits, written,
                                     resumes, response_parts>>
    /\ UNCHANGED <<loop_frame, paused_invocation_id, stream>>

\* runner: one event.  A credential request without a call id raises
\* ValueError; otherwise the invocation id is kept, a complete request is
\* registered and returned, an incomplete one breaks the loop; the finally
\* clause closes the generator on each of these paths.  An event with no
\* request has the text attribute of every part appended.
EventObject(e) ==
    /\ pc = "streaming" /\ variant = "runner"
    /\ event_count < MaxEvents
    /\ event_count' = event_count + 1
    /\ LET scan == ObjectScan(e)
           noId == scan.matched /\ ~TruthyStr(scan.function_call_id)
           saves == ~noId /\ Registers(variant, scan)
           after == PartsFinal(response_parts, TRUE)
       IN  /\ classified' = Classify(scan, e)
           /\ Arrived(e)
           /\ oauth_detected' = (oauth_detected \/ scan.matched)
           /\ auth_url' = IF scan.matched /\ TruthyRec(scan.auth_config)
                          THEN scan.auth_url ELSE auth_url
           /\ paused_invocation_id' =
                  IF scan.matched /\ ~noId THEN e.invocation_id
                  ELSE paused_invocation_id
           /\ stream' = IF scan.matched THEN "closed" ELSE stream
           /\ \E outcome \in SaveOutcomes(saves) :
                 IF ~scan.matched
                 THEN /\ response_parts' =
                             response_parts \o ExtractText(variant, e)
                      /\ UNCHANGED <<store, turn_saved, hits, written,
                                     resumes, pc, failure, 
                                     result>>
                 ELSE IF noId
                 THEN /\ failure' = ValueErrorMsg
                      /\ result' = ExceptResult(variant, ValueErrorMsg)
                      /\ pc' = "returned"
                      /\ UNCHANGED <<store, turn_saved, hits, written,
                                     resumes, response_parts>>
                 ELSE IF ~saves
                 THEN /\ failure' = after.failure
                      /\ result' = after.result
                      /\ pc' = "returned"
                      /\ UNCHANGED <<store, turn_saved, hits, written,
                                     resumes, response_parts>>
                 ELSE IF outcome = "ok"
                 THEN /\ Registered(scan.state, StorageData(variant, scan, e))
                      /\ result' = AuthRequiredResult(scan.auth_url)
                      /\ pc' = "returned"
                      /\ UNCHANGED <<response_parts, failure>>
                 ELSE /\ failure' = outcome
                      /\ result' = ExceptResult(variant, outcome)
                      /\ pc' = "returned"
                      /\ UNCHANGED <<store, turn_saved, hits, written,
                                     resumes, response_parts>>
    /\ UNCHANGED loop_frame

\* The generator is exhausted: the loop ends and the result is built.
StreamEnd ==
    /\ pc = "streaming"
    /\ stream' = "closed"
    /\ LET after == IF variant \in {"main", "simple"}
                    THEN [failure |-> NoneStr,
                          result |-> ActionsFinal(response_parts,
                                                  oauth_detected, auth_url)]
                    ELSE PartsFinal(response_parts, oauth_detected)
       IN  /\ failure' = after.failure
           /\ result' = after.result
    /\ pc' = "returned"
    /\ UNCHANGED <<loop_frame, store, hits, written, resumes,
                   paused_invocation_id, 
                   response_parts, oauth_detected, auth_url, event_count,
                   classified, turn_saved, arrived_text, auth_like,
                   requested>>

\* deployed: "except AttributeError" comes first and re-raises unless the
\* message names async_create_session or async_stream_query; the re-raised
\* exception is not handled by the "except Exception" clause beside it.
Escapes(v, msg) == v = "deployed" /\ msg = AttributeErrorMsg

\* The generator raises while the loop awaits the next event (the
\* generator is finished by its own exception): the except clause answers,
\* or the exception leaves query_agent.
StreamRaise(msg) ==
    /\ pc = "streaming"
    /\ stream' = "closed"
    /\ failure' = msg
    /\ result' = IF Escapes(variant, msg) THEN NoneRec
                 ELSE ExceptResult(variant, msg)
    /\ pc' = IF Escapes(variant, msg) THEN "escaped" ELSE "returned"
    /\ UNCHANGED <<loop_frame, store, hits, written, resumes,
                   paused_invocation_id, 
                   response_parts, oauth_detected, auth_url, event_count,
                   classified, turn_saved, arrived_text, auth_like,
                   requested>>

\* The locals of a finished query_agent call are gone.
EndTurn ==
    /\ site' = "none"
    /\ resuming' = FALSE
    /\ response_parts' = <<>>
    /\ oauth_detected' = FALSE
    /\ auth_url' = NoneStr
    /\ event_count' = 0
    /\ classified' = NoneRec
    /\ turn_saved' = {}
    /\ arrived_text' = <<>>
    /\ auth_like' = FALSE
    /\ requested' = NoneStr
    /\ stream' = "none"
    /\ call' = NoneRec
    /\ failure' = NoneStr
    /\ result' = NoneRec

\* The entries of st.session_state.messages are kept without their
\* "content" (every call site copies response["content"] as it is).
WithoutContent(d) == [k \in DOMAIN d \ {"content"} |-> d[k]]

\* The entry a call site appends to st.session_state.messages.  The resume
\* sites copy type and content; the chat site of main and simple adds
\* response.get("auth_url"), that of deployed and runner the whole response.
HistoryEntry(v, at, response) ==
    IF at = "resume"
    THEN [role |-> "assistant", type |-> response.type]
    ELSE IF v \in {"main", "simple"}
    THEN [role |-> "assistant", type |-> response.type,
          auth_url |-> GetStr(response, "auth_url")]
    ELSE ("role" :> "assistant") @@ WithoutContent(response)

\* What the "Display chat history" loop shows for an entry: the
\* authorization prompt with its link target, an error or the text.
DisplayHistory(v, message) ==
    IF v \in {"main", "simple"}
    THEN IF message.type = "text" THEN [shown |-> "markdown"]
         ELSE IF message.type = "oauth"
         THEN IF TruthyStr(GetStr(message, "auth_url"))
              THEN [shown |-> "authorize", link |-> message.auth_url]
              ELSE [shown |-> "error"]
         ELSE IF message.type = "error" THEN [shown |-> "error"]
         ELSE [shown |-> "nothing"]
    ELSE IF GetStr(message, "type") = "auth_required"
    THEN [shown |-> "authorize", link |-> GetStr(message, "auth_url")]
    ELSE [shown |-> "markdown"]

\* query_agent has returned to its call site.  The resume site of deployed
\* and runner clears the OAuth state, then the script goes on to the chat
\* input; the chat site ends the script run.
AfterTurn ==
    /\ pc = "returned"
    /\ IF site = "resume" /\ variant \in {"deployed", "runner"}
       THEN oauth_ready' = FALSE /\ pending_auth_config' = NoneRec
       ELSE UNCHANGED <<oauth_ready, pending_auth_config>>
    /\ pc' = IF site = "resume" THEN "chat" ELSE "idle"
    /\ prompt' = IF site = "resume" THEN prompt ELSE NoneStr
    /\ messages' = HistoryEntry(variant, site, result)
    /\ EndTurn
    /\ UNCHANGED <<variant, side_vars, store, user_id, agent_session_id,
                   paused_invocation_id, client, query_params, button,
                   turns, history_vars, navigations, created>>

\* An exception left query_agent: asyncio.run raises it in the script, the
\* script run ends there (nothing after the call site runs).
Escaped ==
    /\ pc = "escaped"
    /\ pc' = "idle"
    /\ prompt' = NoneStr
    /\ EndTurn
    /\ UNCHANGED <<variant, side_vars, store, session_vars, query_params,
                   button, 
                   turns, history_vars, navigations, messages, created>>

\* ------------------------------------------------------- the specification
Next ==
    \/ \E params \in {NoneRec} \cup [code : Codes, state : OAuthStates]
                       \cup {[code |-> "k1"], [state |-> "s1"]} :
           Navigate(params)
    \/ \E p \in Prompts : Submit(p)
    \/ \E click \in BOOLEAN : Rerun(click)
    \/ CallbackHit
    \/ CallbackMiss
    \/ CallbackReadFails
    \/ NoCallback
    \/ ResumeTurnMain
    \/ ResumeTurnDeployed
    \/ ResumeTurnRunner
    \/ ResumeSkip
    \/ ChatTurnMain
    \/ ChatTurnSimple
    \/ ChatTurnDeployed
    \/ ChatTurnRunner
    \/ ChatSkip
    \/ \E e \in ActionsEvents : EventActions(e)
    \/ \E e \in PartsEvents : EventParts(e)
    \/ \E e \in ObjectEvents : EventObject(e)
    \/ StreamEnd
    \/ \E msg \in RuntimeErrors : StreamRaise(msg)
    \/ AfterTurn
    \/ Escaped

Spec == Init /\ [][Next]_vars

\* ------------------------------------------------ the agent's credentials
\* AuthCredential(auth_type=OAUTH2, oauth2=OAuth2Auth(..)): the tokens it
\* holds; oauth2 may be None.
Credential(access_token, refresh_token) ==
    [kind |-> "AuthCredential",
     oauth2 |-> [access_token |-> access_token,
                 refresh_token |-> refresh_token]]

BareCredential == [kind |-> "AuthCredential", oauth2 |-> NoneRec]

Tokens == {NoneStr, "t1"}

\* What the session state may hold under credential_cache_key: nothing, a
\* credential with any of its tokens, one without oauth2, or an object that
\* is not an AuthCredential.
CachedValues ==
    {NoneRec, BareCredential, [kind |-> "dict", access_token |-> "t0"]}
    \cup {Credential(a, r) : a \in Tokens, r \in Tokens}

\* What OAuth2CredentialRefresher.refresh and
\* OAuth2CredentialExchanger.exchange may do: raise, return None, return a
\* credential without oauth2, with or without an access token.
LibraryOutcomes(token) ==
    {[raises |-> "invalid_grant"], NoneRec, BareCredential,
     Credential(NoneStr, "r2"), Credential(token, "r2")}

\* The AuthConfig built from the scheme and the raw client credential.
NewAuthConfig ==
    [kind |-> "AuthConfig",
     auth_scheme |-> "oauth2_scheme",
     raw_auth_credential |-> [client_id |-> "cid", redirect_uri |-> "ruri"]]

\* "x and x.oauth2.access_token": None and a raise are falsy or caught, a
\* credential without oauth2 raises AttributeError, which is caught too.
YieldsToken(outcome) ==
    /\ "kind" \in DOMAIN outcome
    /\ outcome.oauth2 # NoneRec
    /\ TruthyStr(outcome.oauth2.access_token)

\* A helper whose failed refresh leaves the cached-credential step by the
\* outer except clause.
get_user_credentials_outer_except(state, refresh, exchange) ==
    LET cached_credential == state.cache
        is_credential ==
            /\ cached_credential # NoneRec
            /\ cached_credential.kind = "AuthCredential"
        has_oauth2 == is_credential /\ cached_credential.oauth2 # NoneRec
        refreshes ==
            has_oauth2 /\ TruthyStr(cached_credential.oauth2.refresh_token)
    IN  IF refreshes /\ YieldsToken(refresh)
        THEN [returns |-> refresh,
              state |-> [state EXCEPT !.cache = refresh]]
        ELSE IF /\ has_oauth2
                /\ TruthyStr(cached_credential.oauth2.access_token)
                /\ ~(refreshes /\ "raises" \in DOMAIN refresh)
        THEN [returns |-> cached_credential, state |-> state]
        ELSE IF TruthyStr(state.auth_response_uri) /\ YieldsToken(exchange)
        THEN [returns |-> exchange,
              state |-> [cache |-> exchange, auth_response_uri |-> NoneStr]]
        ELSE [returns |-> NewAuthConfig, state |-> state]

\* A helper that uses up auth_response_uri whenever it tries the exchange.
get_user_credentials_consuming(state, refresh, exchange) ==
    LET cached_credential == state.cache
        is_credential ==
            /\ cached_credential # NoneRec
            /\ cached_credential.kind = "AuthCredential"
        has_oauth2 == is_credential /\ cached_credential.oauth2 # NoneRec
        refreshes ==
            has_oauth2 /\ TruthyStr(cached_credential.oauth2.refresh_token)
    IN  IF refreshes /\ YieldsToken(refresh)
        THEN [returns |-> refresh,
              state |-> [state EXCEPT !.cache = refresh]]
        ELSE IF has_oauth2 /\ TruthyStr(cached_credential.oauth2.access_token)
        THEN [returns |-> cached_credential, state |-> state]
        ELSE IF TruthyStr(state.auth_response_uri) /\ YieldsToken(exchange)
        THEN [returns |-> exchange,
              state |-> [cache |-> exchange, auth_response_uri |-> NoneStr]]
        ELSE [returns |-> NewAuthConfig,
              state |-> [state EXCEPT !.auth_response_uri = NoneStr]]

\* get_user_credentials: what it returns and the session state it leaves.
\* Step 4: the cached credential, refreshed when it holds a refresh token
\* and the refresh yields an access token, else itself when it holds an
\* access token.  Step 5: the exchange when auth_response_uri is set.
\* Step 6: the AuthConfig.
get_user_credentials(state, refresh, exchange) ==
    LET cached_credential == state.cache
        is_credential ==
            /\ cached_credential # NoneRec
            /\ cached_credential.kind = "AuthCredential"
        has_oauth2 == is_credential /\ cached_credential.oauth2 # NoneRec
        refreshes ==
            has_oauth2 /\ TruthyStr(cached_credential.oauth2.refresh_token)
    IN  IF refreshes /\ YieldsToken(refresh)
        THEN [returns |-> refresh,
              state |-> [state EXCEPT !.cache = refresh]]
        ELSE IF has_oauth2 /\ TruthyStr(cached_credential.oauth2.access_token)
        THEN [returns |-> cached_credential, state |-> state]
        ELSE IF TruthyStr(state.auth_response_uri) /\ YieldsToken(exchange)
        THEN [returns |-> exchange,
              state |-> [cache |-> exchange, auth_response_uri |-> NoneStr]]
        ELSE [returns |-> NewAuthConfig, state |-> state]

\* The session state a tool call finds.
CredentialInit ==
    /\ ScriptInit /\ variant = "main"
    /\ SessionsIdle /\ FurtherIdle
    /\ tool_state \in [cache : CachedValues,
                       auth_response_uri : {NoneStr, callback_url("k1", "s1")}]
    /\ returned = NoneRec
    /\ library = NoneRec

\* A tool asks for the user's credentials.
GetUserCredentials(refresh, exchange) ==
    LET got == get_user_credentials(tool_state, refresh, exchange)
    IN  /\ returned' = got.returns
        /\ tool_state' = got.state
        /\ library' = [refresh |-> refresh, exchange |-> exchange]
        /\ UNCHANGED <<script_vars, sessions_vars, further_vars>>

CredentialNext ==
    \E refresh \in LibraryOutcomes("t2"), exchange \in LibraryOutcomes("t3") :
        GetUserCredentials(refresh, exchange)

CredentialSpec == CredentialInit /\ [][CredentialNext]_vars

\* ------------------------------------------- browser sessions side by side
\* Streamlit runs one script per browser session, each in its own thread
\* with its own st.session_state, one script run at a time per session; the
\* sessions share the files of the store and the agent runtime.  Modelled
\* for the variants whose user id is the fixed "user_123".
UiSessions == 1..MaxUiSessions

\* A browser session whose script ran "Initialize session state": no
\* session id, nothing armed, the chat page shown, no turn running.
FreshUi ==
    [user_id |-> InitialUserId("main", 0),
     agent_session_id |-> NoneStr,
     oauth_ready |-> FALSE,
     page |-> "chat",
     phase |-> "idle"]

SessionsInit ==
    /\ ScriptInit /\ variant \in {"main", "simple"}
    /\ CredentialIdle /\ FurtherIdle
    /\ ui = [u \in UiSessions |-> FreshUi]
    /\ files = EmptyStore
    /\ made = 0

\* What a turn registers about the session it runs in.
SessionRecord(s) ==
    [agent_session_id |-> s.agent_session_id, user_id |-> s.user_id]

\* A browser loads the app URL in a session of its own, plain (state is
\* None) or as the redirect with code and state: handle_oauth_callback
\* restores the session identity from the state's record and arms the
\* resume, or shows "Session expired".
PageLoad(u, state) ==
    /\ ui[u].phase = "idle"
    /\ LET stored_data == IF state = NoneStr THEN NoneRec
                          ELSE load_auth_config(files, state)
       IN  IF state = NoneStr
           THEN /\ ui' = [ui EXCEPT ![u] = FreshUi]
                /\ files' = files
           ELSE IF stored_data # NoneRec
           THEN /\ ui' = [ui EXCEPT ![u] =
                            [FreshUi EXCEPT
                                !.agent_session_id =
                                    stored_data.agent_session_id,
                                !.user_id = stored_data.user_id,
                                !.oauth_ready = TRUE]]
                /\ files' = StoreAfterLoad(variant, files, state)
           ELSE /\ ui' = [ui EXCEPT ![u] = [FreshUi EXCEPT !.page = "expired"]]
                /\ files' = files
    /\ UNCHANGED <<script_vars, credential_vars, further_vars, made>>

\* "Clear and Start Over" on the "Session expired" page.
StartOver(u) ==
    /\ ui[u].phase = "idle"
    /\ ui[u].page = "expired"
    /\ ui' = [ui EXCEPT ![u].page = "chat"]
    /\ UNCHANGED <<script_vars, credential_vars, further_vars, files, made>>

\* "Clear Session" in the sidebar.
ClearSession(u) ==
    /\ ui[u].phase = "idle"
    /\ ui[u].page = "chat"
    /\ ui[u].agent_session_id # NoneStr
    /\ ui' = [ui EXCEPT ![u].agent_session_id = NoneStr]
    /\ UNCHANGED <<script_vars, credential_vars, further_vars, files, made>>

\* An armed turn reaches the stream call in simple; in main building the
\* resume message raises first and the turn returns with no stream call.
StreamsWhenArmed(v) == v = "simple"

\* query_agent in a browser session: a session is created when none is
\* held, then the turn streams against (user_id, agent_session_id) --
\* unless it is armed and never reaches the stream call.  simple disarms
\* on sending the resume message.
StartTurn(u) ==
    LET s == ui[u]
        needed == s.agent_session_id = NoneStr
        sid == IF needed THEN SessionId(made + 1) ELSE s.agent_session_id
        streams == s.oauth_ready => StreamsWhenArmed(variant)
    IN  /\ s.phase = "idle"
        /\ s.page = "chat"
        /\ needed => made < MaxSessions
        /\ made' = IF needed THEN made + 1 ELSE made
        /\ ui' = [ui EXCEPT ![u] =
                     [s EXCEPT !.agent_session_id = sid,
                               !.oauth_ready =
                                   IF streams THEN FALSE ELSE s.oauth_ready,
                               !.phase =
                                   IF streams THEN "streaming" ELSE "idle"]]
        /\ UNCHANGED <<script_vars, credential_vars, further_vars, files>>

\* The stream of a running turn yields an authorization request with a
\* state: the turn registers its session identity under it.
AuthRequested(u, state) ==
    /\ ui[u].phase = "streaming"
    /\ files' = save_auth_config(files, state, SessionRecord(ui[u]))
    /\ UNCHANGED <<script_vars, credential_vars, further_vars, ui, made>>

\* The stream of a running turn ends.
TurnEnds(u) ==
    /\ ui[u].phase = "streaming"
    /\ ui' = [ui EXCEPT ![u].phase = "idle"]
    /\ UNCHANGED <<script_vars, credential_vars, further_vars, files, made>>

SessionsNext ==
    \E u \in UiSessions :
        \/ \E state \in OAuthStates \cup {NoneStr} : PageLoad(u, state)
        \/ StartOver(u)
        \/ ClearSession(u)
        \/ StartTurn(u)
        \/ \E state \in OAuthStates : AuthRequested(u, state)
        \/ TurnEnds(u)

SessionsSpec == SessionsInit /\ [][SessionsNext]_vars

\* ------------------------------------------- text extraction in the main app
\* query_agent's loop over the stream of the main app, for dictionary
\* events of any shape: several text parts, a part without text first, an
\* empty text first, a text field of the event itself with and without a
\* content dictionary.
ContentEvent(parts) == [content |-> [parts |-> parts]]

ExtractionEvents ==
    {ContentEvent(<<[text |-> t]>>) : t \in Texts}
    \cup {ContentEvent(<<[text |-> "hello"], [text |-> "world"]>>),
          ContentEvent(<<[text |-> "world"], [text |-> "hello"]>>),
          ContentEvent(<<[function_call |-> [name |-> "get_launches"]],
                         [text |-> "world"]>>),
          ContentEvent(<<[text |-> ""], [text |-> "world"]>>),
          ContentEvent(<<>>),
          [text |-> "world"] @@ ContentEvent(<<[text |-> "hello"]>>),
          [text |-> "world"] @@ ContentEvent(<<>>),
          [text |-> "hello"],
          [invocation_id |-> "inv1"]}

ExtractionInit ==
    /\ ScriptInit /\ variant = "main"
    /\ CredentialIdle /\ SessionsIdle
    /\ StorageIdle /\ LoadsIdle
    /\ ExtractionIdle

\* One pass of the loop body over the next event of the stream.
Extract(event) ==
    /\ streamed.count < MaxStream
    /\ streamed' = [count |-> streamed.count + 1, last |-> event]
    /\ collected' = collected \o ActionsText(event)
    /\ UNCHANGED <<script_vars, credential_vars, sessions_vars,
                   storage_vars, loads_vars>>

ExtractionNext == \E event \in ExtractionEvents : Extract(event)

ExtractionSpec == ExtractionInit /\ [][ExtractionNext]_vars

\* ------------------------------------------------------ the storage tool
\* os.getenv("STORAGE_BUCKET"): unset, set to the empty string, or a name.
Buckets == {NoneStr, "", "bkt"}

Conversations == {"hi", "bye"}

\* datetime.now().strftime("%Y-%m-%d-%H-%M-%S"): the clock cut to the whole
\* second (here the seconds of one minute's first ten).
strftime(t) ==
    "2025-01-01-00-00-0"
        \o <<"0", "1", "2", "3", "4", "5", "6", "7", "8", "9">>[t + 1]

BlobName(t) == "conversation-" \o strftime(t) \o ".txt"

\* What google.cloud.storage may do: work, raise when the client is built
\* (no credentials), raise at the upload.
StorageOutcomes == {"ok", "client_raises", "upload_raises"}

BucketUnset == "Error: STORAGE_BUCKET environment variable not set."

\* A storage tool that builds its client before it looks at the bucket name.
save_conversation_client_first(storage_bucket, conversation, t, outcome, bucket, made_clients) ==
    IF outcome = "client_raises"
    THEN [raised |-> TRUE, returned |-> NoneStr, blob |-> NoneStr,
          objects |-> bucket, clients |-> made_clients]
    ELSE IF ~TruthyStr(storage_bucket)
    THEN [raised |-> FALSE, returned |-> BucketUnset, blob |-> NoneStr,
          objects |-> bucket, clients |-> made_clients + 1]
    ELSE IF outcome = "upload_raises"
    THEN [raised |-> TRUE, returned |-> NoneStr, blob |-> NoneStr,
          objects |-> bucket, clients |-> made_clients + 1]
    ELSE [raised |-> FALSE,
          returned |-> "Conversation saved to gs://" \o storage_bucket
                           \o "/" \o BlobName(t),
          blob |-> BlobName(t),
          objects |-> (BlobName(t) :> conversation) @@ bucket,
          clients |-> made_clients + 1]

\* save_conversation at clock second t, against a bucket holding the given
\* objects: what it returns (or that it raised), the object it wrote, the
\* objects and the number of clients afterwards.  upload_from_string
\* replaces an object of the same name.
save_conversation(storage_bucket, conversation, t, outcome, bucket, made_clients) ==
    IF ~TruthyStr(storage_bucket)
    THEN [raised |-> FALSE, returned |-> BucketUnset, blob |-> NoneStr,
          objects |-> bucket, clients |-> made_clients]
    ELSE IF outcome = "client_raises"
    THEN [raised |-> TRUE, returned |-> NoneStr, blob |-> NoneStr,
          objects |-> bucket, clients |-> made_clients]
    ELSE IF outcome = "upload_raises"
    THEN [raised |-> TRUE, returned |-> NoneStr, blob |-> NoneStr,
          objects |-> bucket, clients |-> made_clients + 1]
    ELSE [raised |-> FALSE,
          returned |-> "Conversation saved to gs://" \o storage_bucket
                           \o "/" \o BlobName(t),
          blob |-> BlobName(t),
          objects |-> (BlobName(t) :> conversation) @@ bucket,
          clients |-> made_clients + 1]

StorageInit ==
    /\ ScriptInit /\ variant = "main"
    /\ CredentialIdle /\ SessionsIdle
    /\ ExtractionIdle /\ LoadsIdle
    /\ environ \in Buckets
    /\ now = 0
    /\ objects = [n \in {} |-> NoneStr]
    /\ clients = 0
    /\ uploads = <<>>

\* The agent calls the tool.
SaveConversation(conversation, outcome) ==
    LET did == save_conversation(environ, conversation, now, outcome,
                                 objects, clients)
    IN  /\ Len(uploads) < MaxSaves
        /\ objects' = did.objects
        /\ clients' = did.clients
        /\ uploads' = Append(uploads,
                             [conversation |-> conversation,
                              at |-> now,
                              raised |-> did.raised,
                              returned |-> did.returned,
                              blob |-> did.blob])
        /\ UNCHANGED <<environ, now>>
        /\ UNCHANGED <<script_vars, credential_vars, sessions_vars,
                       extraction_vars, loads_vars>>

\* The clock reaches the next second.
Tick ==
    /\ now < MaxClock
    /\ now' = now + 1
    /\ UNCHANGED <<environ, objects, clients, uploads>>
    /\ UNCHANGED <<script_vars, credential_vars, sessions_vars,
                   extraction_vars, loads_vars>>

StorageNext ==
    \/ \E conversation \in Conversations, outcome \in StorageOutcomes :
           SaveConversation(conversation, outcome)
    \/ Tick

StorageSpec == StorageInit /\ [][StorageNext]_vars

\* ----------------------------------------- two loads of the main app race
\* Two script runs of the main app (two browser sessions, each in its own
\* thread) call load_auth_config at the same time.  The existence check, the
\* read, the unlink and the return are separate steps of each call; the
\* file system makes each of them atomic.
Loaders == {"a", "b"}

\* What a turn of the main app leaves in the state's file.
StoredRecord(state) ==
    LET cfg == AuthConfig("snake", AuthUri, state)
    IN  [function_call_id |-> CallIdOf(cfg),
         auth_config |-> cfg,
         agent_session_id |-> "sess1",
         user_id |-> InitialUserId("main", 0),
         invocation_id |-> "inv1"]

\* An unlink that passes over a file that is already gone.
unlink_missing_ok(d, state) ==
    [raised |-> FALSE, disk |-> [d EXCEPT ![state] = NoneRec]]

\* file_path.unlink(): removes the file, FileNotFoundError when it is gone.
unlink(d, state) ==
    IF d[state] = NoneRec
    THEN [raised |-> TRUE, disk |-> d]
    ELSE [raised |-> FALSE, disk |-> [d EXCEPT ![state] = NoneRec]]

LoadsInit ==
    /\ ScriptInit /\ variant = "main"
    /\ CredentialIdle /\ SessionsIdle
    /\ ExtractionIdle /\ StorageIdle
    /\ disk \in {[s \in OAuthStates |->
                     IF s \in present THEN StoredRecord(s) ELSE NoneRec] :
                    present \in SUBSET OAuthStates}
    /\ loaders \in {[p \in Loaders |->
                        [state |-> of[p], at |-> "call",
                         config |-> NoneRec, returned |-> NoneRec]] :
                       of \in [Loaders -> OAuthStates]}

\* if file_path.exists(): otherwise return None.
Exists(p) ==
    /\ loaders[p].at = "call"
    /\ loaders' = [loaders EXCEPT ![p].at =
                       IF disk[loaders[p].state] # NoneRec
                       THEN "checked" ELSE "done"]
    /\ UNCHANGED disk
    /\ UNCHANGED <<script_vars, credential_vars, sessions_vars,
                   extraction_vars, storage_vars>>

\* open(file_path, "r") and json.load(f); a file that is gone by now
\* raises FileNotFoundError, the except clause prints and None is returned.
Read(p) ==
    /\ loaders[p].at = "checked"
    /\ loaders' = [loaders EXCEPT ![p] =
                       IF disk[loaders[p].state] # NoneRec
                       THEN [@ EXCEPT !.at = "read",
                                      !.config = disk[loaders[p].state]]
                       ELSE [@ EXCEPT !.at = "done"]]
    /\ UNCHANGED disk
    /\ UNCHANGED <<script_vars, credential_vars, sessions_vars,
                   extraction_vars, storage_vars>>

\* file_path.unlink(), inside the try: when it raises, None is returned.
Unlink(p) ==
    LET did == unlink(disk, loaders[p].state)
    IN  /\ loaders[p].at = "read"
        /\ disk' = did.disk
        /\ loaders' = [loaders EXCEPT ![p].at =
                           IF did.raised THEN "done" ELSE "unlinked"]
        /\ UNCHANGED <<script_vars, credential_vars, sessions_vars,
                   extraction_vars, storage_vars>>

\* return config
Return(p) ==
    /\ loaders[p].at = "unlinked"
    /\ loaders' = [loaders EXCEPT ![p].at = "done",
                                  ![p].returned = loaders[p].config]
    /\ UNCHANGED disk
    /\ UNCHANGED <<script_vars, credential_vars, sessions_vars,
                   extraction_vars, storage_vars>>

LoadsNext ==
    \E p \in Loaders : Exists(p) \/ Read(p) \/ Unlink(p) \/ Return(p)

LoadsSpec == LoadsInit /\ [][LoadsNext]_vars

\* ------------------------------------------------------------- the claims
\* What a turn's resume message carries, read off the stream call.
ResumeResponse == call.message.parts[1].function_response

\* The callback URL of the correlation the session last succeeded in.
LastCallbackUrl == callback_url(lastCallback.code, lastCallback.state)

\* The exchanged credential of an auth config, and the key the response URI
\* goes under, in the casing the config is written in.
ExchangedOf(cfg) ==
    IF "exchangedAuthCredential" \in DOMAIN cfg
    THEN cfg.exchangedAuthCredential
    ELSE GetRec(cfg, "exchanged_auth_credential")

ResponseUriKey(cfg) ==
    IF "exchangedAuthCredential" \in DOMAIN cfg
    THEN "authResponseUri"
    ELSE "auth_response_uri"

EmbeddedUri(cfg) ==
    GetStr(GetRec(ExchangedOf(cfg), "oauth2"), ResponseUriKey(cfg))

\* A turn that returned having been asked to resume, the runtime having
\* raised nothing.
ResumeTurnReturned ==
    pc = "returned" /\ resuming /\ failure \notin RuntimeErrors

\* C1: read-once store -- in every file-backed variant a record saved under
\* a state is read back by at most one load_auth_config; a second load of
\* the same state with no save in between returns None.
C1_ReadOnce ==
    \A s \in OAuthStates : hits[s] <= 1

\* C2: at-most-once consumption -- each registered record leads to at most
\* one resume message sent to the runtime, replaying the same code/state
\* URL included.
C2_AtMostOneResume ==
    \A s \in OAuthStates : resumes[s] <= 1

\* C3: round-trip correlation -- the resume turn that follows the callback
\* (code K, state S) of a record registered with function-call id C sends a
\* message whose function_response.id is C and whose embedded response URI
\* is http://127.0.0.1:8501/?code=K&state=S.
C3_RoundTrip ==
    ResumeTurnReturned =>
        /\ call # NoneRec
        /\ ResumeResponse.id = lastCallback.stored_data.function_call_id
        /\ EmbeddedUri(ResumeResponse.response) = LastCallbackUrl

\* C4: main app -- once the callback has armed the resume (oauth_ready with
\* a pending config), the next run of the driver sends the resume message
\* to the stream call and leaves oauth_ready False and the pending config
\* None.
C4_ResumeOnNextRun ==
    (variant = "main" /\ ResumeTurnReturned) =>
        /\ call # NoneRec
        /\ ~oauth_ready
        /\ pending_auth_config = NoneRec

\* C5: main app -- the resume message is the minimal encoding: one
\* function_response named adk_request_credential, its response holding
\* auth_scheme, credential_key and an exchanged credential reduced to its
\* auth_type and the oauth2 response URI.
C5_MinimalEncoding ==
    (variant = "main" /\ ResumeTurnReturned) =>
        /\ call # NoneRec
        /\ call.message =
               [role |-> "user",
                parts |->
                    <<[function_response |->
                          [name |-> REQUEST_EUC_FUNCTION_CALL_NAME,
                           id |-> lastCallback.stored_data.function_call_id,
                           response |->
                               [auth_scheme |->
                                    lastCallback.stored_data.auth_config.auth_scheme,
                                credential_key |->
                                    GetStr(lastCallback.stored_data.auth_config,
                                           "credential_key"),
                                exchanged_auth_credential |->
                                    [auth_type |->
                                         lastCallback.stored_data.auth_config
                                             .exchanged_auth_credential.auth_type,
                                     oauth2 |->
                                         [auth_response_uri |->
                                              LastCallbackUrl]]]]]>>]

\* The stored auth config as the callback leaves it: every field kept, the
\* response URI added to oauth2 in the config's own casing.
WithResponseUri(cfg, url) ==
    LET key == IF "exchangedAuthCredential" \in DOMAIN cfg
               THEN "exchangedAuthCredential"
               ELSE "exchanged_auth_credential"
        oauth2 == cfg[key].oauth2
        answered ==
            [k \in DOMAIN oauth2 \cup {ResponseUriKey(cfg)} |->
                IF k = ResponseUriKey(cfg) THEN url ELSE oauth2[k]]
    IN  [k \in DOMAIN cfg |->
            IF k = key
            THEN [j \in DOMAIN cfg[key] |->
                     IF j = "oauth2" THEN answered ELSE cfg[key][j]]
            ELSE cfg[k]]

\* C6: simple, deployed and runner variants -- the resume message is the
\* full passthrough: a user message of one function_response named
\* adk_request_credential, its id the stored function-call id and its
\* response the whole stored auth config as the callback mutated it.
C6_FullPassthrough ==
    (variant \in {"simple", "deployed", "runner"}
        /\ resuming /\ call # NoneRec) =>
        /\ call.message.role = "user"
        /\ Len(call.message.parts) = 1
        /\ ResumeResponse.name = "adk_request_credential"
        /\ ResumeResponse.id = lastCallback.stored_data.function_call_id
        /\ ResumeResponse.response =
               WithResponseUri(lastCallback.stored_data.auth_config,
                               LastCallbackUrl)

\* C6 witness: a camelCase record answered by a callback, its resume
\* message handed to the stream call of the deployed variant.
C6_Witness ==
    /\ variant = "deployed"
    /\ resuming
    /\ call # NoneRec
    /\ "exchangedAuthCredential" \in DOMAIN lastCallback.stored_data.auth_config
    /\ pc = "streaming"

\* C7: casing tolerance -- whichever casing the stored auth config is
\* written in, a successful correlation writes the response URI in that
\* casing and the resume turn that follows reaches the runtime.
C7_CasingTolerance ==
    /\ (lastCallback # NoneRec /\ oauth_ready) =>
           /\ pending_auth_config # NoneRec
           /\ EmbeddedUri(pending_auth_config.auth_config) = LastCallbackUrl
    /\ ResumeTurnReturned => call # NoneRec

\* C8: early stop on suspension -- once an event of the turn is an
\* authorization request, no further event is retrieved from the stream
\* (and so no further record registered) in that turn.
C8_EarlyStop ==
    classified # NoneRec => event_count = classified.at

\* C9: stream release -- on every path by which query_agent returns after
\* the stream call, the stream has been closed.
C9_StreamReleased ==
    (pc = "returned" /\ call # NoneRec) => stream = "closed"

\* C10: main app, suspended iff registered -- a turn reports
\* authorization-required with a URL exactly when an event carried both
\* auth URI and state, the store then holding the record under that state;
\* an event with only one of the two neither reports nor registers.
C10_SuspendedIffRegistered ==
    (variant = "main" /\ pc = "returned" /\ call # NoneRec
        /\ failure = NoneStr) =>
        /\ (result.type = "oauth" /\ result.auth_url # NoneStr)
               <=> classified # NoneRec
        /\ classified # NoneRec => store[classified.state] # NoneRec
        /\ turn_saved # {} => classified # NoneRec

\* The separator a variant joins text fragments with, and the sentence it
\* answers with when there is no text.
Separator(v) == IF v \in {"main", "simple"} THEN "\n" ELSE "\n\n"

NoResponse(v) ==
    IF v \in {"main", "simple"} THEN "No response from agent."
    ELSE "I received your message but couldn't generate a response."

\* The fragments of a non-empty sequence in order, the separator between.
RECURSIVE Concat(_, _)
Concat(seq, sep) ==
    IF Len(seq) = 1 THEN seq[1]
    ELSE Concat(SubSeq(seq, 1, Len(seq) - 1), sep) \o sep \o seq[Len(seq)]

\* sub occurs in seq as a run of consecutive elements.
Contains(seq, sub) ==
    \E i \in 0..(Len(seq) - Len(sub)) :
        SubSeq(seq, i + 1, i + Len(sub)) = sub

\* A turn returned after its stream call, neither the runtime nor the store
\* having raised.
StreamTurnReturned ==
    /\ pc = "returned"
    /\ call # NoneRec
    /\ failure \notin RuntimeErrors \cup SaveErrors

\* C11: malformed auth event degrades to content -- a turn whose events
\* held an auth structure but never both auth URI and state raises nothing
\* and answers as the same stream without the structure would: the text
\* that arrived, else the no-response sentence.
C11_MalformedDegrades ==
    (StreamTurnReturned /\ auth_like /\ classified = NoneRec) =>
        /\ failure = NoneStr
        /\ result.type = "text"
        /\ result.content =
               IF arrived_text = <<>> THEN NoResponse(variant)
               ELSE Concat(arrived_text, Separator(variant))

\* C12: no double-extraction conflict -- when one event holds both text and
\* a well-formed auth request, the turn has accumulated that text, holds
\* the record in the store and ends as authorization-required.
C12_NoDoubleExtraction ==
    (StreamTurnReturned /\ classified # NoneRec
        /\ classified.texts # <<>>) =>
        /\ failure = NoneStr
        /\ Contains(response_parts, classified.texts)
        /\ store[classified.state] # NoneRec
        /\ result.type \in {"oauth", "auth_required"}
        /\ result.auth_url # NoneStr

\* C13: no-op turn sentinel (app.py, app_simple.py, app_deployed.py) -- a
\* stream, the empty one included, with no auth structure and no text part
\* is answered by a result of type text holding the non-empty no-response
\* sentence.
C13_NoOpSentinel ==
    (pc = "returned" /\ call # NoneRec
        /\ variant \in {"main", "simple", "deployed"}
        /\ failure \notin RuntimeErrors
        /\ ~auth_like /\ arrived_text = <<>>) =>
        /\ failure = NoneStr
        /\ result.type = "text"
        /\ result.content = NoResponse(variant)
        /\ result.content # ""

\* C13 witness: a stream of events without text and without auth structure
\* has ended.
C13_Witness ==
    /\ pc = "returned"
    /\ variant = "main"
    /\ event_count >= 1
    /\ ~auth_like
    /\ arrived_text = <<>>
    /\ failure = NoneStr

\* C14: completed-turn text (app.py, app_simple.py, app_deployed.py) --
\* when the stream ends with no auth request detected, the text returned is
\* the fragments that arrived, in arrival order, joined by the separator.
C14_CompletedText ==
    (pc = "returned" /\ variant \in {"main", "simple", "deployed"}
        /\ stream = "closed" /\ failure = NoneStr
        /\ ~oauth_detected /\ arrived_text # <<>>) =>
        /\ result.type = "text"
        /\ result.content = Concat(arrived_text, Separator(variant))

\* C14 witness: two events with different text have arrived and the turn
\* has returned their text.
C14_Witness ==
    /\ pc = "returned"
    /\ variant = "deployed"
    /\ arrived_text = <<"world", "hello">>
    /\ result.type = "text"

\* The runtime's messages that speak of an authorization problem.
IndicatesAuthorization(msg) == msg = "401 Unauthorized: missing oauth token"

\* C15: failure classification (app.py) -- when the runtime raises while
\* the session is created or the stream is read, query_agent returns the
\* inferred authorization outcome (type oauth, no URL) if the message
\* speaks of authorization and an error carrying the message otherwise; the
\* step registers no record and arms no resume.
C15_FailureClassification ==
    [][(variant = "main" /\ pc # "returned" /\ pc' = "returned"
            /\ failure' \in RuntimeErrors) =>
          /\ result' =
                 IF IndicatesAuthorization(failure')
                 THEN [type |-> "oauth",
                       content |-> "Authentication required: " \o failure',
                       auth_url |-> NoneStr,
                       requires_auth |-> TRUE]
                 ELSE [type |-> "error",
                       content |-> "Error: " \o failure',
                       requires_auth |-> FALSE]
          /\ store' = store
          /\ oauth_ready' = oauth_ready
          /\ pending_auth_config' = pending_auth_config]_vars

\* C15 witness: the runtime raised its authorization message in the middle
\* of a stream of the main app.
C15_Witness ==
    /\ variant = "main"
    /\ pc = "returned"
    /\ event_count >= 1
    /\ failure = "401 Unauthorized: missing oauth token"
    /\ result.type = "oauth"

\* C16: propagation policy -- no failure raised inside a turn leaves
\* query_agent; every call returns one result whose type is text,
\* authorization-required or error.
C16_Propagation ==
    /\ pc # "escaped"
    /\ pc = "returned" =>
           /\ result # NoneRec
           /\ result.type \in {"text", "oauth", "auth_required", "error"}

\* C17: credential store write failure -- when save_auth_config fails while
\* a turn registers a detected auth request, query_agent reports a result
\* of type error.
C17_WriteFailureIsError ==
    (pc = "returned" /\ failure \in SaveErrors) => result.type = "error"

\* C18: failed read is NotFound -- when reading a state's record fails,
\* load_auth_config returns None and the callback handling takes the
\* NotFound path; the failure never leaves the callback handling as an
\* exception.
C18_FailedReadIsNotFound ==
    [][(pc = "top" /\ IsCallback /\ store[query_params.state] # NoneRec
            /\ hits' = hits) =>
          /\ callback_outcome' = "expired"
          /\ store' = store]_vars

\* C19: unknown state -- when a callback arrives and no record is stored
\* under its state, the user is shown the session-expired outcome, no
\* resume is sent by that step, and session id, user id, pending config
\* and oauth_ready stay as they were.
C19_UnknownState ==
    [][(pc = "top" /\ IsCallback /\ store[query_params.state] = NoneRec) =>
          /\ callback_outcome' = "expired"
          /\ resumes' = resumes
          /\ call' = call
          /\ agent_session_id' = agent_session_id
          /\ user_id' = user_id
          /\ pending_auth_config' = pending_auth_config
          /\ oauth_ready' = oauth_ready]_vars

\* C20: not a callback (app.py) -- when the URL lacks code or lacks state,
\* the callback handling reads no record, deletes none, changes no session
\* state and reports that the request is not a callback.
C20_NotACallback ==
    [][(variant = "main" /\ pc = "top" /\ ~IsCallback) =>
          /\ callback_outcome' = "not_callback"
          /\ store' = store
          /\ hits' = hits
          /\ lastCallback' = lastCallback
          /\ agent_session_id' = agent_session_id
          /\ user_id' = user_id
          /\ pending_auth_config' = pending_auth_config
          /\ oauth_ready' = oauth_ready]_vars

\* C20 witness: the URL holds the state of a stored record and no code; the
\* main app went on as for any other page load, the record still stored.
C20_Witness ==
    /\ variant = "main"
    /\ callback_outcome = "not_callback"
    /\ query_params = [state |-> "s1"]
    /\ store["s1"] # NoneRec

\* Two auth configs differ in nothing but the response URI: the same keys
\* at every level, the same value under every key, except that oauth2 of
\* the exchanged credential of the second holds url under the response-URI
\* key of the config's casing.
OnlyResponseUriDiffers(old, new, url) ==
    LET exKey == IF "exchangedAuthCredential" \in DOMAIN old
                 THEN "exchangedAuthCredential"
                 ELSE "exchanged_auth_credential"
        uriKey == ResponseUriKey(old)
    IN  /\ DOMAIN new = DOMAIN old
        /\ \A k \in DOMAIN old \ {exKey} : new[k] = old[k]
        /\ DOMAIN new[exKey] = DOMAIN old[exKey]
        /\ \A k \in DOMAIN old[exKey] \ {"oauth2"} :
               new[exKey][k] = old[exKey][k]
        /\ DOMAIN new[exKey].oauth2 =
               DOMAIN old[exKey].oauth2 \cup {uriKey}
        /\ \A k \in DOMAIN old[exKey].oauth2 \ {uriKey} :
               new[exKey].oauth2[k] = old[exKey].oauth2[k]
        /\ new[exKey].oauth2[uriKey] = url

\* C21: single permitted mutation -- a successful callback changes exactly
\* one field of the stored auth config, the auth response URI under
\* exchanged credential / oauth2 in the stored casing; every other key and
\* value, and the stored function call id, are what was registered.
C21_SingleMutation ==
    callback_outcome = "hit" =>
        /\ pending_auth_config # NoneRec
        /\ pending_auth_config.function_call_id =
               lastCallback.stored_data.function_call_id
        /\ OnlyResponseUriDiffers(lastCallback.stored_data.auth_config,
                                  pending_auth_config.auth_config,
                                  LastCallbackUrl)

\* C21 witness: the main variant right after a callback read back the
\* record of s2, the armed pending config held.
C21_Witness ==
    /\ variant = "main"
    /\ callback_outcome = "hit"
    /\ lastCallback.state = "s2"
    /\ oauth_ready
    /\ pending_auth_config # NoneRec

\* C22: resume goes to the suspended session -- the resume turn that follows
\* a successful callback is sent with the user id and the session id stored
\* in the record, also when the callback was handled in a fresh browser
\* session whose client was not yet initialised.
C22_ResumeToSuspendedSession ==
    (resuming /\ call # NoneRec) =>
        /\ call.user_id = lastCallback.stored_data.user_id
        /\ call.session_id = lastCallback.stored_data[SessionKey(variant)]

\* C23: resume targets the paused invocation -- the invocation id of the
\* auth event is stored in the record, restored by the callback and, when
\* present, passed to the stream call of the resume turn.
C23_ResumeTargetsInvocation ==
    /\ (callback_outcome = "hit" /\ variant = "main") =>
           pending_auth_config.invocation_id =
               GetStr(lastCallback.stored_data, "invocation_id")
    /\ (variant \in {"main", "runner"}
           /\ ResumeTurnReturned
           /\ TruthyStr(GetStr(lastCallback.stored_data, "invocation_id"))) =>
           /\ call # NoneRec
           /\ call.invocation_id = lastCallback.stored_data.invocation_id

\* C24: one record per state, last write wins -- the store holds at most
\* one record per state (it is a map from the state to its file's content);
\* while no load has consumed it, the record held under a state is exactly
\* the one registered last under it, and the next load returns that one.
C24_LastWriteWins ==
    [][\A s \in OAuthStates :
           /\ hits'[s] = 0 => store'[s] = written'[s]
           /\ (hits[s] = 0 /\ hits'[s] = 1) =>
                  lastCallback'.stored_data = written[s]]_vars

\* C24 witness: a turn of the main variant registered under s1 twice, the
\* complete request first and the one without the auth URI second; the
\* file holds the second.
C24_Witness ==
    /\ variant = "main"
    /\ classified # NoneRec
    /\ classified.at = 1
    /\ classified.state = "s1"
    /\ event_count = 2
    /\ store["s1"] # NoneRec
    /\ store["s1"].auth_config = AuthConfig("snake", NoneStr, "s1")

\* C26: detector shape coverage -- an event that holds an authorization
\* request with auth URI and state, as an entry of requested_auth_configs
\* or as an adk_request_credential call, in camelCase or snake_case, is
\* classified as authorization-required.
C26_DetectorCoverage ==
    requested # NoneStr =>
        /\ classified # NoneRec
        /\ classified.state = requested

\* C28: session identity is created only by a turn's first call -- the
\* runtime's create-session is invoked only when a turn starts while no
\* session id is held; while one is held, also one a callback restored
\* from a record, the turn reuses it and no session is created.
C28_SessionCreatedOnce ==
    [][/\ created' # created => agent_session_id = NoneStr
       /\ (agent_session_id # NoneStr /\ call' # call /\ call' # NoneRec) =>
              call'.session_id = agent_session_id]_vars

\* The turn's result is the authorization-required outcome with a URL.
AuthorizationWithUrl(response) ==
    /\ response # NoneRec
    /\ response.type \in {"oauth", "auth_required"}
    /\ TruthyStr(GetStr(response, "auth_url"))

\* C29: the authorization prompt stays clickable -- whenever a turn, fresh
\* or resume, ends authorization-required with a URL, the entry appended to
\* the chat history keeps that URL, so the history loop of every later
\* rerun shows it as the authorization prompt linking to it.
C29_PromptStaysClickable ==
    [][(pc = "returned" /\ pc' # "returned"
            /\ AuthorizationWithUrl(result)) =>
           /\ GetStr(messages', "auth_url") = result.auth_url
           /\ DisplayHistory(variant, messages') =
                  [shown |-> "authorize", link |-> result.auth_url]]_vars

\* The cached credential holds a refresh token, an access token.
HoldsRefreshToken(cached) ==
    /\ cached # NoneRec
    /\ cached.kind = "AuthCredential"
    /\ cached.oauth2 # NoneRec
    /\ cached.oauth2.refresh_token # NoneStr

HoldsAccessToken(cached) ==
    /\ cached # NoneRec
    /\ cached.kind = "AuthCredential"
    /\ cached.oauth2 # NoneRec
    /\ cached.oauth2.access_token # NoneStr

\* C30: credential lifecycle order of get_user_credentials -- the refreshed
\* credential when the cached one has a refresh token and the refresh
\* yields an access token; otherwise the cached credential when it holds an
\* access token (also after a refresh that raised); otherwise the exchanged
\* credential when auth_response_uri is in session state and the exchange
\* yields an access token; otherwise the AuthConfig, and the AuthConfig
\* only when no earlier step produced an access token.
C30_LifecycleOrder ==
    [][LET cached == tool_state.cache
           refreshed == HoldsRefreshToken(cached)
                            /\ YieldsToken(library'.refresh)
           exchanged == tool_state.auth_response_uri # NoneStr
                            /\ YieldsToken(library'.exchange)
       IN  /\ refreshed => returned' = library'.refresh
           /\ (~refreshed /\ HoldsAccessToken(cached)) => returned' = cached
           /\ (~refreshed /\ ~HoldsAccessToken(cached) /\ exchanged) =>
                  returned' = library'.exchange
           /\ (~refreshed /\ ~HoldsAccessToken(cached) /\ ~exchanged) =>
                  returned' = NewAuthConfig
           /\ returned' = NewAuthConfig =>
                  ~(refreshed \/ HoldsAccessToken(cached) \/ exchanged)
      ]_credential_vars

\* C30 witness: the refresh of a cached credential with both tokens raised
\* and the cached credential was returned.
C30_Witness ==
    /\ library # NoneRec
    /\ "raises" \in DOMAIN library.refresh
    /\ returned = Credential("t1", "t1")

\* C25: per-session serialization -- in every interleaving of browser
\* sessions, the original one and a post-redirect one that restored the
\* same session id included, no two turns stream against the same
\* (user id, session id) at the same time.
C25_PerSessionSerialization ==
    \A u, w \in UiSessions :
        (u # w /\ ui[u].phase = "streaming" /\ ui[w].phase = "streaming") =>
            <<ui[u].user_id, ui[u].agent_session_id>> #
                <<ui[w].user_id, ui[w].agent_session_id>>

StateOf(cfg) == GetStr(GetRec(ExchangedOf(cfg), "oauth2"), "state")

\* C34: state binding -- a resume is armed for a callback (code, state)
\* only when that state equals the oauth2 state of the pending
\* authorization it is matched with; a callback whose state differs from
\* the state of every pending authorization arms nothing and sends no
\* resume message; the auth response URI of an armed resume carries the
\* state of the record's oauth2 object.
C34_StateBinding ==
    [][/\ (oauth_ready' /\ ~oauth_ready) =>
              /\ IsCallback
              /\ lastCallback' # NoneRec
              /\ StateOf(lastCallback'.stored_data.auth_config) =
                     query_params.state
              /\ EmbeddedUri(pending_auth_config'.auth_config) =
                     callback_url(query_params.code,
                         StateOf(lastCallback'.stored_data.auth_config))
       /\ (pc = "top" /\ IsCallback
               /\ \A s \in OAuthStates :
                      store[s] # NoneRec =>
                          StateOf(store[s].auth_config) # query_params.state) =>
              /\ oauth_ready' = oauth_ready
              /\ pending_auth_config' = pending_auth_config
              /\ resumes' = resumes
      ]_vars

\* C34 witness: the record of s1 is pending and the callback came for s2:
\* nothing was armed, the record is still there.
C34_Witness ==
    /\ callback_outcome \in {"expired", "ignored"}
    /\ query_params # NoneRec
    /\ "state" \in DOMAIN query_params
    /\ query_params.state = "s2"
    /\ store["s1"] # NoneRec
    /\ store["s2"] = NoneRec
    /\ ~oauth_ready

\* The last successful callback of the browser session has not been
\* answered by a resume message yet.
CallbackUnanswered ==
    /\ lastCallback # NoneRec
    /\ hits[lastCallback.state] >= 1
    /\ resumes[lastCallback.state] = 0

TextPartsOf(event) ==
    {i \in 1..Len(event.content.parts) :
        "text" \in DOMAIN event.content.parts[i]}

AddedFragments ==
    {collected'[k] : k \in (Len(collected) + 1)..Len(collected')}

\* C36: one fragment per event in the main app -- from each event
\* query_agent accumulates at most one text fragment, the text of the first
\* part that carries text; later text parts of the same event, and a
\* top-level text field of a dictionary event that also has a content
\* dictionary, do not appear in the result.
C36_OneFragmentPerEvent ==
    [][streamed' # streamed =>
          LET event == streamed'.last
          IN  /\ Len(collected') \in {Len(collected), Len(collected) + 1}
              /\ SubSeq(collected', 1, Len(collected)) = collected
              /\ "content" \in DOMAIN event =>
                     LET parts == event.content.parts
                         S == TextPartsOf(event)
                     IN  /\ S = {} => AddedFragments = {}
                         /\ \A i \in S :
                                (\A j \in S : i <= j) =>
                                    /\ AddedFragments \subseteq {parts[i].text}
                                    /\ parts[i].text # "" =>
                                           AddedFragments = {parts[i].text}
                                    /\ \A j \in S :
                                           parts[j].text # parts[i].text =>
                                               parts[j].text \notin AddedFragments
                                    /\ ("text" \in DOMAIN event
                                            /\ event.text # parts[i].text) =>
                                           event.text \notin AddedFragments
      ]_vars

\* C36 witness: an event with two text parts and one with a text field
\* beside its content dictionary went through the loop, each leaving the
\* text of its first text part.
C36_Witness ==
    /\ streamed.count = 2
    /\ streamed.last = [text |-> "world"] @@ ContentEvent(<<[text |-> "hello"]>>)
    /\ collected = <<"world", "hello">>

C38_DistinctObjects ==
    \A i, j \in 1..Len(uploads) :
        (i < j /\ uploads[i].blob # NoneStr /\ uploads[j].blob # NoneStr) =>
            /\ uploads[i].blob # uploads[j].blob
            /\ objects[uploads[i].blob] = uploads[i].conversation

\* C32: concurrent consumption -- for every interleaving of two concurrent
\* load_auth_config(S) calls in the main app (existence check, read and
\* unlink are separate steps) on a stored record, at most one of the two
\* calls returns the record and the other returns None.
C32_ConcurrentConsumption ==
    \A p, q \in Loaders :
        (p # q /\ loaders[p].state = loaders[q].state) =>
            /\ ~(loaders[p].returned # NoneRec /\ loaders[q].returned # NoneRec)
            /\ (loaders[p].returned # NoneRec /\ loaders[q].at = "done") =>
                   loaders[q].returned = NoneRec
            /\ loaders[p].returned # NoneRec =>
                   /\ loaders[p].returned = StoredRecord(loaders[p].state)
                   /\ disk[loaders[p].state] = NoneRec
            /\ (loaders[p].at = "done" /\ loaders[q].at = "done"
                    /\ loaders[q].config # NoneRec) =>
                   (loaders[p].returned # NoneRec
                        \/ loaders[q].returned # NoneRec)

\* C32 witness: both calls for the same state read the record; one
\* unlinked the file and returned the record, the other returned None.
C32_Witness ==
    /\ loaders["a"].state = loaders["b"].state
    /\ loaders["a"].at = "done" /\ loaders["b"].at = "done"
    /\ loaders["a"].config # NoneRec /\ loaders["b"].config # NoneRec
    /\ loaders["a"].returned = NoneRec
    /\ loaders["b"].returned = StoredRecord(loaders["b"].state)

====
